---- MODULE Spec2Model ----
(***************************************************************************)
(* A model of the comment moderation engine of abuse_moderation:           *)
(*   filter.py          the abuse classifier (is_abusive_with_auto_review) *)
(*   spam_detection.py  the repetition / promotional spam detector         *)
(*   main.py            create_comment, check_and_handle_user_abuse and    *)
(*                      review_comment, with their database commits        *)
(* Texts are TLA+ strings; a character is a string of length 1.            *)
(***************************************************************************)
EXTENDS Integers, Sequences, FiniteSets, TLC

VARIABLES
    comments,   \* the comments table: id -> row (models.Comment)
    users,      \* the users table: id -> [warning_count, is_suspended]
    nextId,     \* the next value of the comments.id sequence
    req,        \* per request slot: the create_comment call in progress
    reviews,    \* number of review_comment calls made so far
    failures,   \* number of failed commits injected so far
    verdicts    \* the pure classifiers tabulated on the texts of the model

vars == <<comments, users, nextId, req, reviews, failures, verdicts>>

-----------------------------------------------------------------------------
(* Bounds of the model *)

MaxComments == 5      \* comments created in Spec
MaxSeqComments == 7   \* comments created in SpecSeq
MaxReviews == 1       \* moderator review calls in Spec
MaxFailures == 1      \* failed commits in Spec
MaxConcComments == 5  \* comments created in SpecConc
MaxValidComments == 5 \* comments created in SpecValid
MaxAbuseComments == 2 \* comments created in SpecAbuse
MaxLexComments == 2   \* comments created in SpecLex
MaxIsoComments == 6   \* comments created in SpecIso
MaxModComments == 5    \* comments created in SpecMod
MaxMonoComments == 6   \* comments created in SpecMono
MaxRateComments == 8   \* comments created in SpecRate

Procs == {1, 2}       \* request slots
Users == {1, 2}
Posts == {1, 2}

-----------------------------------------------------------------------------
(* Strings *)

Ch(s, i) == SubSeq(s, i, i)

InStr(c, cls) == \E k \in 1..Len(cls) : Ch(cls, k) = c

UpperChars == "ABCDEFGHIJKLMNOPQRSTUVWXYZ"
LowerChars == "abcdefghijklmnopqrstuvwxyz"
DigitChars == "0123456789"
SpaceChars == " \t\n"

LowerCh(c) ==
    IF InStr(c, UpperChars)
    THEN Ch(LowerChars, CHOOSE k \in 1..Len(UpperChars) : Ch(UpperChars, k) = c)
    ELSE c

RECURSIVE Lower(_)
\* str.lower(), one half of the string after the other
Lower(s) ==
    IF s = "" THEN ""
    ELSE IF Len(s) = 1 THEN LowerCh(s)
    ELSE Lower(SubSeq(s, 1, Len(s) \div 2)) \o Lower(SubSeq(s, Len(s) \div 2 + 1, Len(s)))

\* the positions of s that hold no whitespace
Inked(s) == {i \in 1..Len(s) : ~InStr(Ch(s, i), SpaceChars)}

LStrip(s) ==
    IF Inked(s) = {} THEN ""
    ELSE SubSeq(s, CHOOSE i \in Inked(s) : \A k \in Inked(s) : i <= k, Len(s))

RStrip(s) ==
    IF Inked(s) = {} THEN ""
    ELSE SubSeq(s, 1, CHOOSE i \in Inked(s) : \A k \in Inked(s) : k <= i)

\* str.strip()
Strip(s) == RStrip(LStrip(s))

\* `sub in s`
Contains(s, sub) ==
    \E i \in 1..(Len(s) - Len(sub) + 1) : SubSeq(s, i, i + Len(sub) - 1) = sub

IsWordCh(c) == InStr(c, LowerChars) \/ InStr(c, UpperChars) \/ InStr(c, DigitChars) \/ c = "_"

-----------------------------------------------------------------------------
(* Regular expressions (Python's re.search on a lowered text).             *)
(* A pattern is a tree of records; Ends(r, s, p) is the set of offsets at  *)
(* which a match of r that starts at offset p of s can end, so that        *)
(* re.search(r, s) succeeds iff some Ends(r, s, p) is not empty.           *)

Lit(str)    == [k |-> "lit", s |-> str]
Cls(chars)  == [k |-> "cls", s |-> chars]      \* [chars]
WS          == [k |-> "ws"]                    \* \s
NWS         == [k |-> "nws"]                   \* \S
NW          == [k |-> "nw"]                    \* \W
AnyCh       == [k |-> "any"]                   \* .
WB          == [k |-> "wb"]                    \* \b
Bol         == [k |-> "bol"]                   \* ^
Eol         == [k |-> "eol"]                   \* $
Cat(rs)     == [k |-> "cat", rs |-> rs]
Alt(rs)     == [k |-> "alt", rs |-> rs]
Star(r)     == [k |-> "star", r |-> r]         \* r*
Plus(r)     == Cat(<<r, Star(r)>>)             \* r+
Opt(r)      == Alt(<<r, Lit("")>>)             \* r?

WordAt(s, p) == p >= 1 /\ p <= Len(s) /\ IsWordCh(Ch(s, p))

\* \b at offset p: the characters on the two sides differ in being word characters
BoundaryAt(s, p) == WordAt(s, p) # WordAt(s, p + 1)

OneCh(r, c) ==
    CASE r.k = "cls" -> InStr(c, r.s)
      [] r.k = "ws"  -> InStr(c, SpaceChars)
      [] r.k = "nws" -> ~InStr(c, SpaceChars)
      [] r.k = "nw"  -> ~IsWordCh(c)
      [] r.k = "any" -> c # "\n"

RECURSIVE Ends(_, _, _)
RECURSIVE CatEnds(_, _, _, _)
RECURSIVE StarEnds(_, _, _, _)

Ends(r, s, p) ==
    CASE r.k = "lit"  -> IF p + Len(r.s) <= Len(s) /\ SubSeq(s, p + 1, p + Len(r.s)) = r.s
                         THEN {p + Len(r.s)} ELSE {}
      [] r.k \in {"cls", "ws", "nws", "nw", "any"} ->
                         IF p < Len(s) /\ OneCh(r, Ch(s, p + 1)) THEN {p + 1} ELSE {}
      [] r.k = "wb"   -> IF BoundaryAt(s, p) THEN {p} ELSE {}
      [] r.k = "bol"  -> IF p = 0 THEN {p} ELSE {}
      [] r.k = "eol"  -> IF p = Len(s) THEN {p} ELSE {}
      [] r.k = "cat"  -> CatEnds(r.rs, 1, s, {p})
      [] r.k = "alt"  -> UNION {Ends(r.rs[i], s, p) : i \in 1..Len(r.rs)}
      [] r.k = "star" -> StarEnds(r.r, s, {p}, {p})

CatEnds(rs, i, s, from) ==
    IF i > Len(rs) \/ from = {} THEN from
    ELSE CatEnds(rs, i + 1, s, UNION {Ends(rs[i], s, q) : q \in from})

StarEnds(r, s, frontier, acc) ==
    LET new == (UNION {Ends(r, s, q) : q \in frontier}) \ acc
    IN  IF new = {} THEN acc ELSE StarEnds(r, s, new, acc \cup new)

\* re.search(r, s) is not None
Search(r, s) == \E p \in 0..Len(s) : Ends(r, s, p) # {}

-----------------------------------------------------------------------------
(* spam_detection.py *)

RECURSIVE CommonPrefix(_, _, _, _, _, _)
\* the length of the longest common prefix of a[i..ahi] and b[j..bhi] (1-based, inclusive)
CommonPrefix(a, i, ahi, b, j, bhi) ==
    IF i <= ahi /\ j <= bhi /\ Ch(a, i) = Ch(b, j)
    THEN 1 + CommonPrefix(a, i + 1, ahi, b, j + 1, bhi)
    ELSE 0

\* difflib.SequenceMatcher.find_longest_match without junk (autojunk needs 200
\* elements): the longest block, of those the one earliest in a, then earliest in b
LongestMatch(a, alo, ahi, b, blo, bhi) ==
    LET cands == {<<i, j>> : i \in alo..ahi, j \in blo..bhi}
        size == [c \in cands |-> CommonPrefix(a, c[1], ahi, b, c[2], bhi)]
        bestsize == CHOOSE k \in {size[c] : c \in cands} : \A c \in cands : size[c] <= k
        longest == {c \in cands : size[c] = bestsize}
        best == CHOOSE c \in longest :
                    \A d \in longest : c[1] < d[1] \/ (c[1] = d[1] /\ c[2] <= d[2])
    IN  [i |-> best[1], j |-> best[2], size |-> bestsize]

RECURSIVE Matches(_, _, _, _, _, _)
\* the sum of the sizes of SequenceMatcher.get_matching_blocks
Matches(a, alo, ahi, b, blo, bhi) ==
    IF alo > ahi \/ blo > bhi THEN 0
    ELSE LET m == LongestMatch(a, alo, ahi, b, blo, bhi)
         IN  IF m.size = 0 THEN 0
             ELSE m.size
                  + Matches(a, alo, m.i - 1, b, blo, m.j - 1)
                  + Matches(a, m.i + m.size, ahi, b, m.j + m.size, bhi)

\* calculate_similarity as the exact fraction 2*M / T it returns (1.0 when T = 0)
calculate_similarity(text1, text2) ==
    LET a == Strip(Lower(text1))
        b == Strip(Lower(text2))
        T == Len(a) + Len(b)
    IN  IF T = 0 THEN [num |-> 1, den |-> 1]
        ELSE [num |-> 2 * Matches(a, 1, Len(a), b, 1, Len(b)), den |-> T]

SimilarPercent == 85   \* similarity >= 0.85

IsExact(sim) == sim.num = sim.den
IsSimilar(sim) == 100 * sim.num >= SimilarPercent * sim.den

promotional_keywords ==
    << "check out my", "visit my", "click here", "buy now",
       "follow me", "subscribe to", "check my profile", "dm me",
       "whatsapp", "telegram", "link in bio", "follow for follow",
       "check this out", "visit here", "my website", "my channel",
       "discount", "limited offer", "earn money", "work from home" >>

\* http[s]?://\S+|www\.\S+|\S+\.(com|net|org|io|co)\S*
url_pattern ==
    Alt(<< Cat(<<Lit("http"), Opt(Lit("s")), Lit("://"), Plus(NWS)>>),
           Cat(<<Lit("www."), Plus(NWS)>>),
           Cat(<<Plus(NWS), Lit("."),
                 Alt(<<Lit("com"), Lit("net"), Lit("org"), Lit("io"), Lit("co")>>),
                 Star(NWS)>>) >>)

is_promotional_content(text) ==
    LET text_lower == Lower(text)
        has_promotional == \E i \in 1..Len(promotional_keywords) :
                               Contains(text_lower, promotional_keywords[i])
        has_url == Search(url_pattern, text_lower)
    IN  has_promotional \/ has_url

-----------------------------------------------------------------------------
(* filter.py *)

\* abusive_words.txt as load_abusive finds it: missing, or a file of lines
NoFile == [exists |-> FALSE, lines |-> <<>>]
File(lines) == [exists |-> TRUE, lines |-> lines]

\* Variant of load_abusive: a missing file is read as an empty one
load_abusive_no_fallback(file) ==
    LET Inky(line) == Strip(line) # ""
        kept == SelectSeq(file.lines, Inky)
    IN  [i \in 1..Len(kept) |-> Lower(Strip(kept[i]))]

\* load_abusive: the stripped, lowered lines of the file that are not blank, or
\* the built-in list when the file is missing
load_abusive(file) ==
    IF ~file.exists
    THEN <<"stupid", "idiot", "fuck", "hate", "dumb", "shit", "damn", "asshole", "bitch", "moron">>
    ELSE LET Inky(line) == Strip(line) # ""
             kept == SelectSeq(file.lines, Inky)
         IN  [i \in 1..Len(kept) |-> Lower(Strip(kept[i]))]

\* abusive_words = load_abusive(): abusive_words.txt is not part of the repository
abusive_words == load_abusive(NoFile)

Lits(strs) == Alt([i \in 1..Len(strs) |-> Lit(strs[i])])

positive_context_patterns ==
    << Cat(<<Lit("fucking "), Lits(<<"awesome", "brilliant", "amazing", "great", "good",
                                     "cool", "nice", "perfect", "excellent">>)>>),
       Cat(<<Lit("damn "), Lits(<<"good", "great", "awesome", "cool", "nice", "impressive">>)>>),
       Cat(<<Lit("shit "), Lits(<<"ton", "load">>), Lit(" of "),
             Lits(<<"good", "great", "awesome", "fun">>)>>),
       Cat(<<Lit("badass "), Lits(<<"in a good way", "move", "skill", "talent">>)>>),
       Cat(<<Lit("stupid "), Lits(<<"simple", "easy", "obvious", "clear">>)>>),
       Cat(<<Lit("stupidly "), Lits(<<"brilliant", "good", "simple", "easy", "awesome">>)>>) >>

clearly_abusive_patterns ==
    << Cat(<<WB, Lit("you "), Lits(<<"are", "'re">>), Lit(" "),
             Lits(<<"stupid", "idiot", "dumb", "fucking", "an asshole", "a bitch", "shit">>), WB>>),
       Cat(<<WB, Lit("you "), Lits(<<"stupid", "dumb", "fucking">>), Lit(" "),
             Lits(<<"idiot", "moron", "bitch", "asshole">>), WB>>),
       Cat(<<WB, Lit("fuck you"), WB>>),
       Cat(<<WB, Lit("f"), Star(NW), Plus(Lit("*")), Star(NW), Lit("k"), Plus(WS), Lit("you"), WB>>),
       Cat(<<WB, Lit("go"), Star(WS), Lit("to"), Star(WS), Lit("hell"), WB>>),
       Cat(<<WB, Lit("go"), Plus(WS), Lit("to"), Plus(WS), Lit("hell"), WB>>),
       Cat(<<WB, Lits(<<"burn", "rot">>), Star(WS), Lit("in"), Star(WS), Lit("hell"), WB>>),
       Cat(<<WB, Lit("go"), Star(WS), Lit("die"), WB>>),
       Cat(<<WB, Lit("drop"), Star(WS), Lit("dead"), WB>>),
       Cat(<<WB, Lit("kill yourself"), WB>>),
       Cat(<<WB, Lit("kys"), WB>>),
       Cat(<<WB, Lit("hate you"), WB>>),
       Cat(<<WB, Lit("piece of "), Lits(<<"shit", "crap">>), WB>>),
       Cat(<<WB, Lit("you asshole"), WB>>),
       Cat(<<WB, Lit("you "), Lits(<<"are an", "'re an">>), Lit(" asshole"), WB>>),
       Cat(<<WB, Lit("stupid "), Lits(<<"bitch", "asshole", "idiot", "moron">>), WB>>),
       Cat(<<WB, Lit("fucking "), Lits(<<"idiot", "moron", "stupid", "dumb">>), WB>>),
       Cat(<<WB, Lit("shut up"), WB, Star(AnyCh), WB, Opt(Lit("you ")),
             Lits(<<"stupid", "dumb", "fucking", "bitch", "asshole", "idiot">>), WB>>),
       Cat(<<WB, Lit("you suck"), WB>>),
       Cat(<<WB, Lit("die"), WB, Star(AnyCh), WB, Lits(<<"bitch", "asshole", "idiot">>), WB>>),
       Cat(<<WB, Lits(<<"get", "go">>), Star(WS), Lits(<<"lost", "away">>), WB, Star(AnyCh), WB,
             Lits(<<"idiot", "moron", "stupid">>), WB>>),
       Cat(<<WB, Lit("go"), Star(WS), Lit("f**k"), Star(WS), Lit("yourself"), WB>>),
       Cat(<<WB, Lit("g"), Star(WS), Lit("o"), Star(WS), Lit("t"), Star(WS), Lit("o"), Star(WS),
             Lit("h"), Star(WS), Lit("e"), Star(WS), Lit("l"), Star(WS), Lit("l"), WB>>),
       Cat(<<WB, Lit("are"), Plus(WS), Lit("you"), Plus(WS),
             Lits(<<"stupid", "dumb", "idiot", "moron">>), WB>>) >>

highly_abusive_words == <<"asshole", "bitch", "moron", "idiot">>

\* Variant of direct_attack_patterns: only the patterns that address somebody
direct_attack_patterns_addressed(word) ==
    << Cat(<<WB, Lit("you "), Opt(Lit("are ")), Lit(word), WB>>),
       Cat(<<WB, Lit("you're "), Opt(Lits(<<"a ", "an ">>)), Lit(word), WB>>) >>

direct_attack_patterns(word) ==
    << Cat(<<WB, Lit("you "), Opt(Lit("are ")), Lit(word), WB>>),
       Cat(<<WB, Lit("you're "), Opt(Lits(<<"a ", "an ">>)), Lit(word), WB>>),
       Cat(<<WB, Lit(word), Eol>>),
       Cat(<<Bol, Lit(word), WB>>) >>

sarcastic_indicators ==
    << Cat(<<WB, Lit("what the "), Lits(<<"hell", "fuck">>), WB>>),
       Cat(<<WB, Lit("why the "), Lits(<<"hell", "fuck">>), WB>>),
       Cat(<<WB, Lit("are you "), Lits(<<"stupid", "dumb", "idiot", "moron">>), WB>>),
       Cat(<<WB, Lit("how "), Lits(<<"stupid", "dumb">>), WB>>) >>

\* the number of patterns of the list that re.search finds in s
CountMatches(patterns, s) == Cardinality({i \in 1..Len(patterns) : Search(patterns[i], s)})

Bit(b) == IF b THEN 1 ELSE 0

EndsWith(s, suffix) ==
    Len(s) >= Len(suffix) /\ SubSeq(s, Len(s) - Len(suffix) + 1, Len(s)) = suffix

RECURSIVE SumSeq(_)
SumSeq(ns) == IF ns = <<>> THEN 0 ELSE Head(ns) + SumSeq(Tail(ns))

\* Variant of analyze_context: a question counts as polite whether or not it
\* is sarcastic
analyze_context_no_sarcasm(text) ==
    LET text_lower == Strip(Lower(text))
        positive_context_score == CountMatches(positive_context_patterns, text_lower)
        clearly_abusive_score == 2 * CountMatches(clearly_abusive_patterns, text_lower)
        highly_abusive_score ==
            3 * SumSeq([w \in 1..Len(highly_abusive_words) |->
                           CountMatches(direct_attack_patterns(highly_abusive_words[w]), text_lower)])
        is_question == EndsWith(Strip(text), "?")
        has_please == Contains(text_lower, "please")
        has_thanks == \E w \in {"thanks", "thank you", "thx"} : Contains(text_lower, w)
        is_genuinely_polite_question == is_question /\ clearly_abusive_score = 0
    IN  [ positive_context |-> positive_context_score,
          clearly_abusive |-> clearly_abusive_score,
          highly_abusive |-> highly_abusive_score,
          politeness_score |-> Bit(is_genuinely_polite_question) + Bit(has_please) + Bit(has_thanks),
          likely_false_positive |-> positive_context_score > 0 /\ clearly_abusive_score = 0
                                    /\ highly_abusive_score = 0 ]

analyze_context(text) ==
    LET text_lower == Strip(Lower(text))
        positive_context_score == CountMatches(positive_context_patterns, text_lower)
        clearly_abusive_score == 2 * CountMatches(clearly_abusive_patterns, text_lower)
        highly_abusive_score ==
            3 * SumSeq([w \in 1..Len(highly_abusive_words) |->
                           CountMatches(direct_attack_patterns(highly_abusive_words[w]), text_lower)])
        is_question == EndsWith(Strip(text), "?")
        is_sarcastic == CountMatches(sarcastic_indicators, text_lower) > 0
        has_please == Contains(text_lower, "please")
        has_thanks == \E w \in {"thanks", "thank you", "thx"} : Contains(text_lower, w)
        is_genuinely_polite_question ==
            is_question /\ ~is_sarcastic /\ clearly_abusive_score = 0
    IN  [ positive_context |-> positive_context_score,
          clearly_abusive |-> clearly_abusive_score,
          highly_abusive |-> highly_abusive_score,
          politeness_score |-> Bit(is_genuinely_polite_question) + Bit(has_please) + Bit(has_thanks),
          likely_false_positive |-> positive_context_score > 0 /\ clearly_abusive_score = 0
                                    /\ highly_abusive_score = 0 ]

\* Method 1: \b + re.escape(word) + \b
exact_pattern(word) == Cat(<<WB, Lit(word), WB>>)

\* Method 2: every character of the word one or more times, between \b
repeated_pattern(word) ==
    Cat(<<WB>> \o [i \in 1..Len(word) |-> Plus(Lit(Ch(word, i)))] \o <<WB>>)

substitutions(char) ==
    CASE char = "a" -> "a@4*#" [] char = "e" -> "e3*#"  [] char = "i" -> "i1!*#"
      [] char = "o" -> "o0*#"  [] char = "s" -> "s$5*#" [] char = "b" -> "b6*#"
      [] char = "g" -> "g9*#"  [] char = "l" -> "l1*#"  [] char = "t" -> "t7*#"
      [] OTHER -> char \o "*#"

\* Method 3: every letter replaced by its class of substitutes, between \b
substitution_pattern(word) ==
    Cat(<<WB>>
        \o [i \in 1..Len(word) |->
               IF InStr(Ch(word, i), LowerChars) THEN Cls(substitutions(Ch(word, i)))
               ELSE Lit(Ch(word, i))]
        \o <<WB>>)

\* Method 4: first letter(s), asterisks, last letter
first_last_pattern(word) == Cat(<<Lit(Ch(word, 1)), Plus(Lit("*")), Lit(Ch(word, Len(word)))>>)
first_two_pattern(word) ==
    Cat(<<Lit(SubSeq(word, 1, 2)), Plus(Lit("*")), Lit(Ch(word, Len(word)))>>)

\* Method 5: the letters joined by \s*, between \b
spaced_pattern(word) ==
    Cat(<<WB>>
        \o [i \in 1..(2 * Len(word) - 1) |->
               IF i % 2 = 1 THEN Lit(Ch(word, (i + 1) \div 2)) ELSE Star(WS)]
        \o <<WB>>)

WordsOf(lexicon) == {lexicon[i] : i \in 1..Len(lexicon)}

\* all_matches of is_abusive_with_auto_review: the words that one of the five
\* methods finds
raw_matches_in(lexicon, text_lower) ==
    LET words == WordsOf(lexicon)
        exact_matches == {w \in words : Search(exact_pattern(w), text_lower)}
        repeated_chars == {w \in words : Search(repeated_pattern(w), text_lower)
                                         /\ w \notin exact_matches}
        substitution_matches == {w \in words : Search(substitution_pattern(w), text_lower)
                                               /\ w \notin exact_matches
                                               /\ w \notin repeated_chars}
        asterisk_matches ==
            {w \in words : /\ Len(w) >= 3
                           /\ w \notin exact_matches
                           /\ \/ Search(first_last_pattern(w), text_lower)
                              \/ Len(w) >= 4 /\ Search(first_two_pattern(w), text_lower)}
        spaced_matches == {w \in words : Search(spaced_pattern(w), text_lower)
                                         /\ w \notin exact_matches}
    IN  exact_matches \cup repeated_chars \cup substitution_matches
        \cup spaced_matches \cup asterisk_matches

\* Variant of hell_filter: "hell" is kept wherever it is found
hell_filter_off(all_matches, text_lower) == all_matches

\* "hell" is removed from all_matches unless the text tells somebody to go to
\* hell, or to burn or rot in it
hell_filter(all_matches, text_lower) ==
    LET go_to_hell == Cat(<<WB, Lit("go"), Star(WS), Lit("to"), Star(WS), Lit("hell"), WB>>)
        in_hell == Cat(<<WB, Lits(<<"burn", "rot">>), Star(WS), Lit("in"), Star(WS),
                         Lit("hell"), WB>>)
    IN  IF "hell" \in all_matches /\ ~Search(go_to_hell, text_lower)
           /\ ~Search(in_hell, text_lower)
        THEN all_matches \ {"hell"}
        ELSE all_matches

\* all_matches of is_abusive_with_auto_review before the context analysis
find_matches_in(lexicon, text_lower) ==
    hell_filter(raw_matches_in(lexicon, text_lower), text_lower)

find_matches(text_lower) == find_matches_in(abusive_words, text_lower)

\* The verdict of is_abusive_with_auto_review. confidence is in hundredths
\* (0.95 is 95); flagged_words is the set of the list's elements.
Verdict(abusive, conf, words, action, reason) ==
    [ is_abusive |-> abusive, confidence |-> conf, flagged_words |-> words,
      auto_action |-> action, reason |-> reason ]

\* all_matches once "phrase_abuse" is added for a text with no flagged word
\* Variant of phrase_abuse: only a clearly abusive phrase adds the sentinel
phrase_abuse_clearly_only(found, context_analysis) ==
    IF found = {} /\ context_analysis.clearly_abusive > 0
    THEN {"phrase_abuse"}
    ELSE found

phrase_abuse(found, context_analysis) ==
    IF found = {} /\ (context_analysis.clearly_abusive > 0
                      \/ context_analysis.highly_abusive > 0)
    THEN {"phrase_abuse"}
    ELSE found

all_matches_in(lexicon, text) ==
    phrase_abuse(find_matches_in(lexicon, Strip(Lower(text))), analyze_context(text))

all_matches_of(text) == all_matches_in(abusive_words, text)

\* Variant of abuse_decision: without the positive-context row
abuse_decision_no_positive(all_matches, context_analysis) ==
    IF all_matches = {}
    THEN Verdict(0, 0, {}, "approve", "no_abusive_words")
    ELSE IF \/ context_analysis.clearly_abusive > 0
            \/ context_analysis.highly_abusive > 0
            \/ Cardinality(all_matches) >= 3
    THEN Verdict(1, 95, all_matches, "keep_hidden",
                 "clearly_abusive_pattern_or_highly_abusive_words")
    ELSE IF Cardinality(all_matches) = 1 /\ context_analysis.politeness_score > 0
    THEN Verdict(0, 40, all_matches, "auto_approve", "polite_tone_detected")
    ELSE IF Cardinality(all_matches) = 1
            /\ \E w \in all_matches : w \in WordsOf(highly_abusive_words)
    THEN Verdict(1, 80, all_matches, "keep_hidden", "high_risk_word_detected")
    ELSE Verdict(1, 60, all_matches, "human_review_needed", "uncertain_context")

\* Variant of abuse_decision: the positive-context row tested before the
\* definitely-abusive one
abuse_decision_positive_first(all_matches, context_analysis) ==
    IF all_matches = {}
    THEN Verdict(0, 0, {}, "approve", "no_abusive_words")
    ELSE IF context_analysis.likely_false_positive
    THEN Verdict(0, 30, all_matches, "auto_approve", "positive_context_detected")
    ELSE IF \/ context_analysis.clearly_abusive > 0
            \/ context_analysis.highly_abusive > 0
            \/ Cardinality(all_matches) >= 3
    THEN Verdict(1, 95, all_matches, "keep_hidden",
                 "clearly_abusive_pattern_or_highly_abusive_words")
    ELSE IF Cardinality(all_matches) = 1 /\ context_analysis.politeness_score > 0
    THEN Verdict(0, 40, all_matches, "auto_approve", "polite_tone_detected")
    ELSE IF Cardinality(all_matches) = 1
            /\ \E w \in all_matches : w \in WordsOf(highly_abusive_words)
    THEN Verdict(1, 80, all_matches, "keep_hidden", "high_risk_word_detected")
    ELSE Verdict(1, 60, all_matches, "human_review_needed", "uncertain_context")

\* the decision logic of is_abusive_with_auto_review
abuse_decision(all_matches, context_analysis) ==
    IF all_matches = {}
    THEN Verdict(0, 0, {}, "approve", "no_abusive_words")
    ELSE IF \/ context_analysis.clearly_abusive > 0
            \/ context_analysis.highly_abusive > 0
            \/ Cardinality(all_matches) >= 3
    THEN Verdict(1, 95, all_matches, "keep_hidden",
                 "clearly_abusive_pattern_or_highly_abusive_words")
    ELSE IF context_analysis.likely_false_positive
    THEN Verdict(0, 30, all_matches, "auto_approve", "positive_context_detected")
    ELSE IF Cardinality(all_matches) = 1 /\ context_analysis.politeness_score > 0
    THEN Verdict(0, 40, all_matches, "auto_approve", "polite_tone_detected")
    ELSE IF Cardinality(all_matches) = 1
            /\ \E w \in all_matches : w \in WordsOf(highly_abusive_words)
    THEN Verdict(1, 80, all_matches, "keep_hidden", "high_risk_word_detected")
    ELSE Verdict(1, 60, all_matches, "human_review_needed", "uncertain_context")

\* is_abusive_with_auto_review when abusive_words is the lexicon
review_in(lexicon, text) ==
    IF text = "" \/ Strip(text) = ""
    THEN Verdict(0, 0, {}, "approve", "empty_text")
    ELSE abuse_decision(all_matches_in(lexicon, text), analyze_context(text))

is_abusive_with_auto_review(text) == review_in(abusive_words, text)

-----------------------------------------------------------------------------
(* The texts submitted in the model, and the classifiers tabulated on them *)

TPromo       == "dm me"         \* promotional keyword, not abusive
TPromoUpper  == "DM ME"         \* the same text after lower()
TPromoSimilar == "dm me!"       \* similarity 10/11 to TPromo
TPlain       == "ok"            \* neither promotional nor abusive
TAbusivePromo == "dm me kys"    \* promotional and abusive (clearly abusive phrase)
TBlank       == " "             \* rejected by the validation
TEmpty       == ""              \* rejected by the validation

RECURSIVE Spaces(_)
Spaces(n) ==
    IF n = 0 THEN "" ELSE IF n = 1 THEN " " ELSE Spaces(n \div 2) \o Spaces(n - n \div 2)

TLong        == "ok" \o Spaces(998)   \* 1000 characters
TTooLong     == "ok" \o Spaces(999)   \* 1001 characters

Texts    == {TPromo, TAbusivePromo, TBlank}
SeqTexts == {TPromo, TPromoUpper, TPromoSimilar, TPlain}
ValidTexts == {TPlain, TBlank, TEmpty, TLong, TTooLong}

\* texts for the rows of the abuse decision
TIdiot           == "idiot"                     \* only a highly abusive word
THighRisk        == "an idiot here"             \* a highly abusive word, no direct attack
TUncertain       == "This is stupid"            \* one flagged word, nothing else
TDamnGood        == "Damn good work!"           \* positive context
TFuckingAwesome  == "This is fucking awesome!"  \* positive context, no flagged word
TStupidSimple    == "That's stupid simple to understand"
TPositiveCrowd   == "damn good shit, stupid simple"   \* positive context, three flagged words
TPositiveAttack  == "damn good, fuck you"       \* positive context and a clearly abusive phrase
TPolite          == "this is stupid, please"
TSarcastic       == "Are you stupid?"           \* sarcastic, clearly abusive phrase
THowStupid       == "how stupid is this?"       \* sarcastic, no clearly abusive phrase
TQuestion        == "is this stupid?"           \* a question that is not sarcastic
TSarcasticThanks == "why the fuck, thanks?"     \* sarcastic, with thanks
TMoron           == "Moron "                    \* one highly abusive word, to be normalised

AbuseTexts ==
    {TPlain, TAbusivePromo, TIdiot, THighRisk, TUncertain, TDamnGood, TFuckingAwesome,
     TStupidSimple, TPositiveCrowd, TPositiveAttack, TPolite, TSarcastic, THowStupid,
     TQuestion, TSarcasticThanks, TMoron}

\* an abusive text and a promotional text that is not abusive, near-identical
TDumbPromo == "dm me, this is dumb"
TDumpPromo == "dm me, this is dump"
ModTexts == {TDumbPromo, TDumpPromo}

AllTexts == Texts \cup SeqTexts \cup ValidTexts \cup AbuseTexts \cup ModTexts

\* the texts that are submitted in one specification with the text t
SubmittedWith(t) ==
    UNION {S \in {Texts \cup SeqTexts, ValidTexts, AbuseTexts, ModTexts} : t \in S}

\* The classifiers are pure functions of their texts: they are evaluated once, in
\* Init, and the actions look their results up in the variable verdicts.
Tabulated ==
    [ \* abusive_words.txt and abusive_words = load_abusive()
      file    |-> NoFile,
      lexicon |-> abusive_words,
      \* is_abusive_with_auto_review(comment.text)
      review  |-> [t \in AllTexts |-> is_abusive_with_auto_review(t)],
      \* all_matches before and after "phrase_abuse" is added, and context_analysis
      found   |-> [t \in AllTexts |-> find_matches(Strip(Lower(t)))],
      matches |-> [t \in AllTexts |-> all_matches_of(t)],
      context |-> [t \in AllTexts |-> analyze_context(t)],
      \* is_promotional_content(text_clean), with text_clean = text.strip()
      promo   |-> [t \in AllTexts |-> is_promotional_content(Strip(t))],
      \* calculate_similarity(text_clean, comment.text)
      sim     |-> [a \in AllTexts |->
                      [b \in SubmittedWith(a) |-> calculate_similarity(Strip(a), b)]] ]

\* texts about "hell" and about phrases that hold no word of the lexicon
TWhatTheHell  == "What the hell is this about?"
TGoToHell     == "Go to hell"
TRotInHell    == "rot in  hell"
THellYouSuck  == "what the hell, you suck"
TGoToH3ll     == "go to h3ll"
TYouIdiot     == "You idiot"
TDropDead     == "drop dead"
LexTexts ==
    {TWhatTheHell, TGoToHell, TRotInHell, THellYouSuck, TGoToH3ll, TYouIdiot, TDropDead, TPlain}

\* abusive_words.txt: missing, as in the repository, or a file that lists "hell"
HellFile == File(<<"Stupid ", "", "hell", " damn", "  ">>)
LexFiles == {NoFile, HellFile}

\* the tables of the module loaded with the file, on the texts of LexTexts; hits
\* are the words found before "hell" is filtered
TabulatedLex(file) ==
    [ file    |-> file,
      lexicon |-> load_abusive(file),
      review  |-> [t \in LexTexts |-> review_in(load_abusive(file), t)],
      hits    |-> [t \in LexTexts |-> raw_matches_in(load_abusive(file), Strip(Lower(t)))],
      found   |-> [t \in LexTexts |-> find_matches_in(load_abusive(file), Strip(Lower(t)))],
      matches |-> [t \in LexTexts |-> all_matches_in(load_abusive(file), t)],
      context |-> [t \in LexTexts |-> analyze_context(t)],
      promo   |-> [t \in LexTexts |-> is_promotional_content(Strip(t))],
      sim     |-> [a \in LexTexts |-> [b \in LexTexts |-> calculate_similarity(Strip(a), b)]] ]

-----------------------------------------------------------------------------
(* spam_detection.detect_spam *)

PromoWarnAt == 3     \* is_promotional and total_repetitions >= 3
PromoSpamAt == 4     \* is_promotional and total_repetitions >= 4
RepeatWarnAt == 5    \* total_repetitions >= 5
RepeatSpamAt == 6    \* total_repetitions >= 6

Max(a, b) == IF a >= b THEN a ELSE b

\* the ids of a set in descending order (order_by created_at desc)
RECURSIVE Descending(_)
Descending(ids) ==
    IF ids = {} THEN <<>>
    ELSE LET m == CHOOSE x \in ids : \A y \in ids : y <= x
         IN  <<m>> \o Descending(ids \ {m})

\* Variant of total_of: the two counters added up
total_of_sum(exact_count, similar_count) == exact_count + similar_count

\* total_repetitions from the two counters
total_of(exact_count, similar_count) == Max(exact_count, similar_count)

SpamVerdict(is_spam, reasons, conf, action, hide_all, ids, reps) ==
    [ is_spam |-> is_spam, reasons |-> reasons, confidence |-> conf, action |-> action,
      hide_all |-> hide_all, similar_comment_ids |-> ids,
      \* the local total_repetitions; the message of the verdict shows it plus one
      total_repetitions |-> reps ]

\* Variant of spam_decision: the promotional spam row one repetition late
spam_decision_late_promo(is_promotional, total_repetitions, similar_comment_ids) ==
    IF is_promotional /\ total_repetitions > PromoSpamAt
    THEN SpamVerdict(TRUE, <<"promotional_repetition_same_post">>, 95, "auto_hide",
                     TRUE, similar_comment_ids, total_repetitions)
    ELSE IF total_repetitions >= RepeatSpamAt
    THEN SpamVerdict(TRUE, <<"excessive_repetition_same_post">>, 100, "auto_hide",
                     FALSE, <<>>, total_repetitions)
    ELSE IF is_promotional /\ total_repetitions >= PromoWarnAt
    THEN SpamVerdict(FALSE, <<"promotional_warning">>, 50, "warning",
                     FALSE, <<>>, total_repetitions)
    ELSE IF total_repetitions >= RepeatWarnAt
    THEN SpamVerdict(FALSE, <<"repetition_warning">>, 50, "warning",
                     FALSE, <<>>, total_repetitions)
    ELSE SpamVerdict(FALSE, <<>>, 0, "allow", FALSE, <<>>, total_repetitions)

\* Variant of spam_decision: the repetition warning with > in place of >=
spam_decision_strict(is_promotional, total_repetitions, similar_comment_ids) ==
    IF is_promotional /\ total_repetitions >= PromoSpamAt
    THEN SpamVerdict(TRUE, <<"promotional_repetition_same_post">>, 95, "auto_hide",
                     TRUE, similar_comment_ids, total_repetitions)
    ELSE IF total_repetitions >= RepeatSpamAt
    THEN SpamVerdict(TRUE, <<"excessive_repetition_same_post">>, 100, "auto_hide",
                     FALSE, <<>>, total_repetitions)
    ELSE IF is_promotional /\ total_repetitions >= PromoWarnAt
    THEN SpamVerdict(FALSE, <<"promotional_warning">>, 50, "warning",
                     FALSE, <<>>, total_repetitions)
    ELSE IF total_repetitions > RepeatWarnAt
    THEN SpamVerdict(FALSE, <<"repetition_warning">>, 50, "warning",
                     FALSE, <<>>, total_repetitions)
    ELSE SpamVerdict(FALSE, <<>>, 0, "allow", FALSE, <<>>, total_repetitions)

\* Variant of spam_decision: the excessive-repetition row also asks for the bulk hide
spam_decision_hides_plain(is_promotional, total_repetitions, similar_comment_ids) ==
    IF is_promotional /\ total_repetitions >= PromoSpamAt
    THEN SpamVerdict(TRUE, <<"promotional_repetition_same_post">>, 95, "auto_hide",
                     TRUE, similar_comment_ids, total_repetitions)
    ELSE IF total_repetitions >= RepeatSpamAt
    THEN SpamVerdict(TRUE, <<"excessive_repetition_same_post">>, 100, "auto_hide",
                     TRUE, similar_comment_ids, total_repetitions)
    ELSE IF is_promotional /\ total_repetitions >= PromoWarnAt
    THEN SpamVerdict(FALSE, <<"promotional_warning">>, 50, "warning",
                     FALSE, <<>>, total_repetitions)
    ELSE IF total_repetitions >= RepeatWarnAt
    THEN SpamVerdict(FALSE, <<"repetition_warning">>, 50, "warning",
                     FALSE, <<>>, total_repetitions)
    ELSE SpamVerdict(FALSE, <<>>, 0, "allow", FALSE, <<>>, total_repetitions)

\* Variant of spam_decision: the excessive-repetition row tested before the
\* promotional one
spam_decision_reordered(is_promotional, total_repetitions, similar_comment_ids) ==
    IF total_repetitions >= RepeatSpamAt
    THEN SpamVerdict(TRUE, <<"excessive_repetition_same_post">>, 100, "auto_hide",
                     FALSE, <<>>, total_repetitions)
    ELSE IF is_promotional /\ total_repetitions >= PromoSpamAt
    THEN SpamVerdict(TRUE, <<"promotional_repetition_same_post">>, 95, "auto_hide",
                     TRUE, similar_comment_ids, total_repetitions)
    ELSE IF is_promotional /\ total_repetitions >= PromoWarnAt
    THEN SpamVerdict(FALSE, <<"promotional_warning">>, 50, "warning",
                     FALSE, <<>>, total_repetitions)
    ELSE IF total_repetitions >= RepeatWarnAt
    THEN SpamVerdict(FALSE, <<"repetition_warning">>, 50, "warning",
                     FALSE, <<>>, total_repetitions)
    ELSE SpamVerdict(FALSE, <<>>, 0, "allow", FALSE, <<>>, total_repetitions)

\* the decision of detect_spam from what its loop computed
spam_decision(is_promotional, total_repetitions, similar_comment_ids) ==
    IF is_promotional /\ total_repetitions >= PromoSpamAt
    THEN SpamVerdict(TRUE, <<"promotional_repetition_same_post">>, 95, "auto_hide",
                     TRUE, similar_comment_ids, total_repetitions)
    ELSE IF total_repetitions >= RepeatSpamAt
    THEN SpamVerdict(TRUE, <<"excessive_repetition_same_post">>, 100, "auto_hide",
                     FALSE, <<>>, total_repetitions)
    ELSE IF is_promotional /\ total_repetitions >= PromoWarnAt
    THEN SpamVerdict(FALSE, <<"promotional_warning">>, 50, "warning",
                     FALSE, <<>>, total_repetitions)
    ELSE IF total_repetitions >= RepeatWarnAt
    THEN SpamVerdict(FALSE, <<"repetition_warning">>, 50, "warning",
                     FALSE, <<>>, total_repetitions)
    ELSE SpamVerdict(FALSE, <<>>, 0, "allow", FALSE, <<>>, total_repetitions)

\* Variant of detect_spam: the comments of the user on every post are counted
detect_spam_any_post(text, user_id, post_id, db, tab) ==
    LET user_comments_on_this_post ==
            {id \in DOMAIN db : /\ db[id].user_id = user_id
                                /\ db[id].status # "deleted"}
        similarity(id) == tab.sim[text][db[id].text]
        exact == {id \in user_comments_on_this_post : IsExact(similarity(id))}
        similar == {id \in user_comments_on_this_post :
                       ~IsExact(similarity(id)) /\ IsSimilar(similarity(id))}
    IN  spam_decision(tab.promo[text],
                      total_of(Cardinality(exact), Cardinality(similar)),
                      Descending(exact \cup similar))

\* Variant of detect_spam: only the comments visible in the feed are counted
detect_spam_visible_only(text, user_id, post_id, db, tab) ==
    LET user_comments_on_this_post ==
            {id \in DOMAIN db : /\ db[id].user_id = user_id
                                /\ db[id].post_id = post_id
                                /\ db[id].status = "approved"}
        similarity(id) == tab.sim[text][db[id].text]
        exact == {id \in user_comments_on_this_post : IsExact(similarity(id))}
        similar == {id \in user_comments_on_this_post :
                       ~IsExact(similarity(id)) /\ IsSimilar(similarity(id))}
    IN  spam_decision(tab.promo[text],
                      total_of(Cardinality(exact), Cardinality(similar)),
                      Descending(exact \cup similar))

\* Variant of detect_spam: similar_comment_ids lists every comment of the loop
detect_spam_lists_all(text, user_id, post_id, db, tab) ==
    LET user_comments_on_this_post ==
            {id \in DOMAIN db : /\ db[id].user_id = user_id
                                /\ db[id].post_id = post_id
                                /\ db[id].status # "deleted"}
        similarity(id) == tab.sim[text][db[id].text]
        exact == {id \in user_comments_on_this_post : IsExact(similarity(id))}
        similar == {id \in user_comments_on_this_post :
                       ~IsExact(similarity(id)) /\ IsSimilar(similarity(id))}
    IN  spam_decision(tab.promo[text],
                      total_of(Cardinality(exact), Cardinality(similar)),
                      Descending(user_comments_on_this_post))

detect_spam(text, user_id, post_id, db, tab) ==
    LET user_comments_on_this_post ==
            {id \in DOMAIN db : /\ db[id].user_id = user_id
                                /\ db[id].post_id = post_id
                                /\ db[id].status # "deleted"}
        similarity(id) == tab.sim[text][db[id].text]
        exact == {id \in user_comments_on_this_post : IsExact(similarity(id))}
        similar == {id \in user_comments_on_this_post :
                       ~IsExact(similarity(id)) /\ IsSimilar(similarity(id))}
    IN  spam_decision(tab.promo[text],
                      total_of(Cardinality(exact), Cardinality(similar)),
                      Descending(exact \cup similar))

-----------------------------------------------------------------------------
(* main.py: the state *)

MaxTextLen == 1000   \* len(comment.text) > 1000 is rejected
MinComments == 5     \* total_comments < 5: not enough data
WarnRate == 50       \* abuse_rate >= 50
SuspendRate == 70    \* abuse_rate >= 70
MaxWarnings == 2     \* user.warning_count < 2

NoPost == 0                   \* a post id that is not in the posts table
Moderator == "moderator"      \* the account of the moderator
None == "None"

\* a row of the comments table (models.Comment), as create_comment builds it;
\* flagged_words and spam_reasons hold the elements of the joined strings
Row(text, user_id, post_id, status, is_abusive, is_spam, confidence_score, flagged_words, spam_reasons, spam_confidence, action, reason) ==
    [ text |-> text, user_id |-> user_id, post_id |-> post_id, status |-> status,
      is_abusive |-> is_abusive, is_spam |-> is_spam,
      confidence_score |-> confidence_score, flagged_words |-> flagged_words,
      spam_reasons |-> spam_reasons, spam_confidence |-> spam_confidence,
      auto_review_action |-> action, auto_review_reason |-> reason,
      moderated_by |-> None ]

\* a verdict that has not been computed
NoReview == Verdict(0, 0, {}, None, None)
NoSpam == SpamVerdict(FALSE, <<>>, 0, None, FALSE, <<>>, 0)

\* auto_review_reason: a reason of the abuse review, "clean_comment", or the message
\* of detect_spam, which is fixed by its reasons and the number of times it shows
Reason(text, times) == [text |-> text, times |-> times]

\* A request slot. review and spam are the results of is_abusive_with_auto_review
\* and detect_spam; spam_calls counts the calls of detect_spam; hidden_ids are the
\* comments the bulk hide set to hidden, changed_ids those of them it changed.
IdleReq ==
    [ pc |-> "idle", user |-> 0, post |-> 0, text |-> "", review |-> NoReview,
      spam |-> NoSpam, spam_calls |-> 0, hidden_ids |-> {}, changed_ids |-> {},
      comment_id |-> 0, mail |-> None, response |-> None ]

Init ==
    /\ comments = <<>>
    /\ users = [u \in Users |-> [warning_count |-> 0, is_suspended |-> FALSE]]
    /\ nextId = 1
    /\ req = [r \in Procs |-> IdleReq]
    /\ reviews = 0
    /\ failures = 0
    /\ verdicts = Tabulated

Free(r) == req[r].pc \in {"idle", "done", "failed"}

\* the request slot once the response is sent: only the response is kept
Done(response) == [IdleReq EXCEPT !.pc = "done", !.response = response]

-----------------------------------------------------------------------------
(* main.py: create_comment *)

\* Variant of classify: detect_spam runs before the abuse verdict is looked at
classify_spam_first(start, db, tab) ==
    LET review_result == tab.review[start.text]
        spam_result == detect_spam(start.text, start.user, start.post, db, tab)
    IN  [start EXCEPT !.review = review_result,
                      !.spam = spam_result,
                      !.spam_calls = 1,
                      !.pc = IF review_result.is_abusive = 1 THEN "save"
                             ELSE IF spam_result.is_spam /\ spam_result.hide_all
                                     /\ spam_result.similar_comment_ids # <<>>
                             THEN "hide" ELSE "save"]

\* lines 299-347: the request after the abuse review and, only when the text is not
\* abusive, detect_spam; pc is the write that comes next
classify(start, db, tab) ==
    LET review_result == tab.review[start.text]
        spam_result == detect_spam(start.text, start.user, start.post, db, tab)
    IN  IF review_result.is_abusive = 1
        THEN [start EXCEPT !.pc = "save", !.review = review_result]
        ELSE [start EXCEPT !.review = review_result,
                           !.spam = spam_result,
                           !.spam_calls = 1,
                           !.pc = IF spam_result.is_spam /\ spam_result.hide_all
                                     /\ spam_result.similar_comment_ids # <<>>
                                  THEN "hide" ELSE "save"]

\* raise HTTPException(...): the request ends with what it had computed so far
Rejected(start, response) == [start EXCEPT !.pc = "done", !.response = response]

\* Variant of Begin: the length check with >= in place of >
Begin_length_inclusive(r, u, p, t) ==
    /\ Free(r)
    /\ UNCHANGED <<comments, users, nextId, reviews, failures, verdicts>>
    /\ LET start == [IdleReq EXCEPT !.user = u, !.post = p, !.text = t]
       IN  IF p \notin Posts
           THEN req' = [req EXCEPT ![r] = Rejected(start, "404_post")]
           ELSE IF Len(Strip(t)) = 0
           THEN req' = [req EXCEPT ![r] = Rejected(start, "400_empty")]
           ELSE IF Len(t) >= MaxTextLen
           THEN req' = [req EXCEPT ![r] = Rejected(start, "400_long")]
           ELSE req' = [req EXCEPT ![r] = classify(start, comments, verdicts)]

\* the validation, the abuse review and, for a text that is not abusive, detect_spam:
\* everything up to the first write. The request carries the token of user u:
\* get_current_user (auth.py:88-98) admits every stored user whose is_active is
\* set, which nothing resets for a commenting user, and reads no other field.
Begin(r, u, p, t) ==
    /\ Free(r)
    /\ UNCHANGED <<comments, users, nextId, reviews, failures, verdicts>>
    /\ LET start == [IdleReq EXCEPT !.user = u, !.post = p, !.text = t]
       IN  IF p \notin Posts
           THEN req' = [req EXCEPT ![r] = Rejected(start, "404_post")]
           ELSE IF Len(Strip(t)) = 0
           THEN req' = [req EXCEPT ![r] = Rejected(start, "400_empty")]
           ELSE IF Len(t) > MaxTextLen
           THEN req' = [req EXCEPT ![r] = Rejected(start, "400_long")]
           ELSE req' = [req EXCEPT ![r] = classify(start, comments, verdicts)]

\* Variant of hide_similar: the bulk hide marks the comments as spam but leaves
\* their status
hide_similar_status_kept(db, ids) ==
    [id \in DOMAIN db |->
        IF \E i \in 1..Len(ids) : ids[i] = id
        THEN [db[id] EXCEPT !.is_spam = 1]
        ELSE db[id]]

\* the rows after the bulk hide of the comments of similar_comment_ids that still exist
hide_similar(db, ids) ==
    [id \in DOMAIN db |->
        IF \E i \in 1..Len(ids) : ids[i] = id
        THEN [db[id] EXCEPT !.status = "hidden", !.is_spam = 1]
        ELSE db[id]]

\* lines 347-355: the bulk hide and its commit
Hide(r) ==
    /\ req[r].pc = "hide"
    /\ comments' = hide_similar(comments, req[r].spam.similar_comment_ids)
    /\ req' = [req EXCEPT ![r].pc = "save",
                          ![r].hidden_ids = {id \in DOMAIN comments :
                              \E i \in 1..Len(req[r].spam.similar_comment_ids) :
                                  req[r].spam.similar_comment_ids[i] = id},
                          ![r].changed_ids = {id \in DOMAIN comments :
                                                 comments'[id] # comments[id]}]
    /\ UNCHANGED <<users, nextId, reviews, failures, verdicts>>

\* Variant of abuse_status: every comment that is not approved is hidden
abuse_status_hides_all(auto_action) ==
    IF auto_action \in {"approve", "auto_approve"} THEN "approved" ELSE "hidden"

\* the status of an abusive comment
abuse_status(auto_action) ==
    IF auto_action \in {"approve", "auto_approve"} THEN "approved"
    ELSE IF auto_action = "keep_hidden" THEN "hidden" ELSE "pending_review"

\* Variant of new_row: the comment of a warning is stored hidden
new_row_hides_warning(q) ==
    IF q.review.is_abusive = 1
    THEN Row(q.text, q.user, q.post, abuse_status(q.review.auto_action),
             q.review.is_abusive, 0, q.review.confidence, q.review.flagged_words,
             <<>>, 0, q.review.auto_action, Reason(q.review.reason, 0))
    ELSE IF q.spam.is_spam
    THEN Row(q.text, q.user, q.post, "hidden", 0, 1, 0, {},
             q.spam.reasons, q.spam.confidence, "auto_hide_spam",
             Reason(q.spam.reasons[1], q.spam.total_repetitions + 1))
    ELSE IF q.spam.action = "warning"
    THEN Row(q.text, q.user, q.post, "hidden", 0, 0, 0, {},
             q.spam.reasons, q.spam.confidence, "warning_spam",
             Reason(q.spam.reasons[1], q.spam.total_repetitions + 1))
    ELSE Row(q.text, q.user, q.post, "approved", 0, 0, 0, {},
             <<>>, 0, "approve", Reason("clean_comment", 0))

\* the row create_comment adds, by the path the request took
new_row(q) ==
    IF q.review.is_abusive = 1
    THEN Row(q.text, q.user, q.post, abuse_status(q.review.auto_action),
             q.review.is_abusive, 0, q.review.confidence, q.review.flagged_words,
             <<>>, 0, q.review.auto_action, Reason(q.review.reason, 0))
    ELSE IF q.spam.is_spam
    THEN Row(q.text, q.user, q.post, "hidden", 0, 1, 0, {},
             q.spam.reasons, q.spam.confidence, "auto_hide_spam",
             Reason(q.spam.reasons[1], q.spam.total_repetitions + 1))
    ELSE IF q.spam.action = "warning"
    THEN Row(q.text, q.user, q.post, "approved", 0, 0, 0, {},
             q.spam.reasons, q.spam.confidence, "warning_spam",
             Reason(q.spam.reasons[1], q.spam.total_repetitions + 1))
    ELSE Row(q.text, q.user, q.post, "approved", 0, 0, 0, {},
             <<>>, 0, "approve", Reason("clean_comment", 0))

response_of(q) ==
    IF q.review.is_abusive = 1 THEN "abuse"
    ELSE IF q.spam.is_spam THEN "spam"
    ELSE IF q.spam.action = "warning" THEN "warning"
    ELSE "clean"

Insert(db, id, row) == [i \in DOMAIN db \cup {id} |-> IF i = id THEN row ELSE db[i]]

\* db.add(db_comment); db.commit(); db.refresh(db_comment)
Save(r) ==
    /\ req[r].pc = "save"
    /\ comments' = Insert(comments, nextId, new_row(req[r]))
    /\ nextId' = nextId + 1
    /\ req' = [req EXCEPT ![r] =
                    IF req[r].review.is_abusive = 1
                    THEN [req[r] EXCEPT !.pc = "abuse_check", !.comment_id = nextId]
                    ELSE Done(response_of(req[r]))]
    /\ UNCHANGED <<users, reviews, failures, verdicts>>

\* a db.commit() that raises: the session's pending changes are lost and the
\* request ends with an error
CommitFails(r) ==
    /\ req[r].pc \in {"hide", "save"}
    /\ failures < MaxFailures
    /\ failures' = failures + 1
    /\ req' = [req EXCEPT ![r].pc = "failed", ![r].response = "500"]
    /\ UNCHANGED <<comments, users, nextId, reviews, verdicts>>

-----------------------------------------------------------------------------
(* main.py: check_and_handle_user_abuse, awaited after an abusive comment is stored *)

CountOf(db, user_id) == Cardinality({id \in DOMAIN db : db[id].user_id = user_id})
FlaggedOf(db, user_id) ==
    Cardinality({id \in DOMAIN db : db[id].user_id = user_id /\ db[id].is_abusive = 1})

\* Variant of abuse_action: a user with two warnings is warned again
abuse_action_warns_again(db, user, user_id) ==
    LET total_comments == CountOf(db, user_id)
        flagged_comments == FlaggedOf(db, user_id)
    IN  IF total_comments < MinComments THEN "none"
        ELSE IF /\ 100 * flagged_comments >= WarnRate * total_comments
                /\ 100 * flagged_comments < SuspendRate * total_comments
                /\ user.warning_count <= MaxWarnings
        THEN "warn"
        ELSE IF 100 * flagged_comments >= SuspendRate * total_comments /\ ~user.is_suspended
        THEN "suspend"
        ELSE "none"

\* "none", "warn" or "suspend": what the abuse-rate check does to the user.
\* abuse_rate = flagged / total * 100, compared as 100 * flagged against rate * total
abuse_action(db, user, user_id) ==
    LET total_comments == CountOf(db, user_id)
        flagged_comments == FlaggedOf(db, user_id)
    IN  IF total_comments < MinComments THEN "none"
        ELSE IF /\ 100 * flagged_comments >= WarnRate * total_comments
                /\ 100 * flagged_comments < SuspendRate * total_comments
                /\ user.warning_count < MaxWarnings
        THEN "warn"
        ELSE IF 100 * flagged_comments >= SuspendRate * total_comments /\ ~user.is_suspended
        THEN "suspend"
        ELSE "none"

\* Variant of AbuseCheck: an e-mail that cannot be sent ends the request with an
\* error and the update of the user is lost
AbuseCheck_mail_fatal(r, mail_ok) ==
    /\ req[r].pc = "abuse_check"
    /\ LET u == req[r].user
           act == abuse_action(comments, users[u], u)
       IN  /\ users' = CASE act = "warn" /\ mail_ok ->
                              [users EXCEPT ![u].warning_count = @ + 1]
                         [] act = "suspend" /\ mail_ok ->
                              [users EXCEPT ![u].is_suspended = TRUE]
                         [] OTHER -> users
           /\ req' = [req EXCEPT ![r] =
                           IF act = "none" THEN Done("abuse")
                           ELSE IF mail_ok THEN [Done("abuse") EXCEPT !.mail = "sent"]
                           ELSE [Done("500") EXCEPT !.mail = "failed"]]
    /\ UNCHANGED <<comments, nextId, reviews, failures, verdicts>>

\* mail_ok: whether the e-mail could be sent; a failure is printed and swallowed
AbuseCheck(r, mail_ok) ==
    /\ req[r].pc = "abuse_check"
    /\ LET u == req[r].user
           act == abuse_action(comments, users[u], u)
       IN  /\ users' = CASE act = "warn" ->
                              [users EXCEPT ![u].warning_count = @ + 1]
                         [] act = "suspend" ->
                              [users EXCEPT ![u].is_suspended = TRUE]
                         [] OTHER -> users
           /\ req' = [req EXCEPT ![r] =
                           [Done("abuse") EXCEPT !.mail = IF act = "none" THEN None
                                                          ELSE IF mail_ok THEN "sent"
                                                          ELSE "failed"]]
    /\ UNCHANGED <<comments, nextId, reviews, failures, verdicts>>

-----------------------------------------------------------------------------
(* main.py: review_comment *)

ReviewActions == {"approve", "hide", "delete", "restore"}   \* "restore" is not an action

\* Variant of review_comment: approve makes the comment visible and leaves
\* is_abusive as it is
review_comment_approve_keeps_flag(db, comment_id, action) ==
    IF comment_id \notin DOMAIN db THEN db
    ELSE IF action = "approve"
    THEN [db EXCEPT ![comment_id].status = "approved",
                    ![comment_id].moderated_by = Moderator]
    ELSE IF action = "hide"
    THEN [db EXCEPT ![comment_id].status = "hidden",
                    ![comment_id].is_abusive = 1,
                    ![comment_id].moderated_by = Moderator]
    ELSE IF action = "delete"
    THEN [id \in DOMAIN db \ {comment_id} |-> db[id]]
    ELSE db

\* Variant of review_comment: an action that is not hide or delete approves
review_comment_lenient(db, comment_id, action) ==
    IF comment_id \notin DOMAIN db THEN db
    ELSE IF action = "hide"
    THEN [db EXCEPT ![comment_id].status = "hidden",
                    ![comment_id].is_abusive = 1,
                    ![comment_id].moderated_by = Moderator]
    ELSE IF action = "delete"
    THEN [id \in DOMAIN db \ {comment_id} |-> db[id]]
    ELSE [db EXCEPT ![comment_id].status = "approved",
                    ![comment_id].is_abusive = 0,
                    ![comment_id].moderated_by = Moderator]

\* the table after review_comment(comment_id, action) by the moderator
review_comment(db, comment_id, action) ==
    IF comment_id \notin DOMAIN db THEN db                      \* 404
    ELSE IF action = "approve"
    THEN [db EXCEPT ![comment_id].status = "approved",
                    ![comment_id].is_abusive = 0,
                    ![comment_id].moderated_by = Moderator]
    ELSE IF action = "hide"
    THEN [db EXCEPT ![comment_id].status = "hidden",
                    ![comment_id].is_abusive = 1,
                    ![comment_id].moderated_by = Moderator]
    ELSE IF action = "delete"
    THEN [id \in DOMAIN db \ {comment_id} |-> db[id]]
    ELSE db                                                     \* 400

Review(comment_id, action) ==
    /\ reviews < MaxReviews
    /\ reviews' = reviews + 1
    /\ comments' = review_comment(comments, comment_id, action)
    /\ UNCHANGED <<users, nextId, req, failures, verdicts>>

-----------------------------------------------------------------------------
(* The specifications *)

\* the (post, text) pairs that user 1 submits in Spec
Submissions == ({1} \X Texts) \cup {<<NoPost, TPromo>>}

\* Spec: the requests of one client, served one at a time, with a moderator who
\* reviews comments between any two commits, and commits that may fail
Next ==
    \/ \E s \in Submissions : nextId <= MaxComments /\ Begin(1, 1, s[1], s[2])
    \/ Hide(1)
    \/ Save(1)
    \/ CommitFails(1)
    \/ \E mail_ok \in BOOLEAN : AbuseCheck(1, mail_ok)
    \/ \E id \in 1..nextId, action \in ReviewActions : Review(id, action)

Spec == Init /\ [][Next]_vars

\* SpecSeq: one user submits comments to one post, one after the other
NextSeq ==
    \/ \E t \in SeqTexts : nextId <= MaxSeqComments /\ Begin(1, 1, 1, t)
    \/ Hide(1)
    \/ Save(1)

SpecSeq == Init /\ [][NextSeq]_vars

\* SpecAbuse: one user submits texts for every row of the abuse decision to one post
NextAbuse ==
    \/ \E t \in AbuseTexts : nextId <= MaxAbuseComments /\ Begin(1, 1, 1, t)
    \/ Save(1)
    \/ \E mail_ok \in BOOLEAN : AbuseCheck(1, mail_ok)

SpecAbuse == Init /\ [][NextAbuse]_vars

\* SpecValid: one user submits texts at the limits of the validation to one post
NextValid ==
    \/ \E t \in ValidTexts : nextId <= MaxValidComments /\ Begin(1, 1, 1, t)
    \/ Save(1)

SpecValid == Init /\ [][NextValid]_vars

\* SpecConc: two requests of one user to one post, served by two workers that
\* share the database; each reads the history, then commits
ConcTexts == {TPromo, TPlain}

NextConc ==
    \/ \E r \in Procs, t \in ConcTexts : nextId <= MaxConcComments /\ Begin(r, 1, 1, t)
    \/ \E r \in Procs : Hide(r)
    \/ \E r \in Procs : Save(r)

SpecConc == Init /\ [][NextConc]_vars

\* SpecLex: the module is loaded with or without abusive_words.txt, then one user
\* submits the texts of LexTexts to one post
InitLex ==
    /\ comments = <<>>
    /\ users = [u \in Users |-> [warning_count |-> 0, is_suspended |-> FALSE]]
    /\ nextId = 1
    /\ req = [r \in Procs |-> IdleReq]
    /\ reviews = 0
    /\ failures = 0
    /\ \E file \in LexFiles : verdicts = TabulatedLex(file)

NextLex ==
    \/ \E t \in LexTexts : nextId <= MaxLexComments /\ Begin(1, 1, 1, t)
    \/ Save(1)
    \/ \E mail_ok \in BOOLEAN : AbuseCheck(1, mail_ok)

SpecLex == InitLex /\ [][NextLex]_vars

\* SpecIso: two users and two posts. User 1 submits a promotional text, a
\* near-identical one and another text to post 1, and the promotional text to
\* post 2; user 2 submits the promotional text to post 1
IsoSubmissions ==
    {<<1, 1, TPromo>>, <<1, 1, TPromoSimilar>>, <<1, 1, TPlain>>, <<1, 2, TPromo>>,
     <<2, 1, TPromo>>}

NextIso ==
    \/ \E s \in IsoSubmissions : nextId <= MaxIsoComments /\ Begin(1, s[1], s[2], s[3])
    \/ Hide(1)
    \/ Save(1)

SpecIso == Init /\ [][NextIso]_vars

\* SpecMod: one user submits an abusive text that waits for review and a
\* near-identical promotional text to one post, and a moderator reviews comments
\* between any two commits
NextMod ==
    \/ \E t \in ModTexts : nextId <= MaxModComments /\ Begin(1, 1, 1, t)
    \/ Hide(1)
    \/ Save(1)
    \/ \E mail_ok \in BOOLEAN : AbuseCheck(1, mail_ok)
    \/ \E id \in 1..nextId, action \in ReviewActions : Review(id, action)

SpecMod == Init /\ [][NextMod]_vars

\* SpecRate: two users submit clean and abusive texts to one post
RateSubmissions == {<<1, TPlain>>, <<1, TIdiot>>, <<2, TIdiot>>}

NextRate ==
    \/ \E s \in RateSubmissions : nextId <= MaxRateComments /\ Begin(1, s[1], 1, s[2])
    \/ Save(1)
    \/ \E mail_ok \in BOOLEAN : AbuseCheck(1, mail_ok)

SpecRate == Init /\ [][NextRate]_vars

\* SpecMono: one user repeats a promotional text and an abusive text similar to
\* it on one post, and the moderator hides or deletes comments
MonoReviews == {"hide", "delete"}

NextMono ==
    \/ \E t \in ModTexts : nextId <= MaxMonoComments /\ Begin(1, 1, 1, t)
    \/ Hide(1)
    \/ Save(1)
    \/ \E mail_ok \in BOOLEAN : AbuseCheck(1, mail_ok)
    \/ \E id \in 1..nextId, action \in MonoReviews : Review(id, action)

SpecMono == Init /\ [][NextMono]_vars

-----------------------------------------------------------------------------
(* Properties of create_comment and review_comment, checked under Spec *)

\* a request between its classification and its response
Classified(q) == q.pc \in {"hide", "save", "abuse_check", "failed"}

\* the ids a verdict lists
Listed(verdict) == {verdict.similar_comment_ids[i] : i \in 1..Len(verdict.similar_comment_ids)}

\* the stored comments with the text, user and post of a request
CopiesOf(q) == {id \in DOMAIN comments : /\ comments[id].text = q.text
                                         /\ comments[id].user_id = q.user
                                         /\ comments[id].post_id = q.post}

\* C1: when is_abusive_with_auto_review returns is_abusive = 1 for the submitted
\* text, detect_spam is not called for that submission (zero calls), the request
\* never takes the bulk-hide step, and the comment is stored by the abuse path with
\* is_abusive = 1 and is_spam = 0, whatever the user's earlier comments are.
AbusePreemptsSpam ==
    \A r \in Procs :
        LET q == req[r]
        IN  (Classified(q) /\ verdicts.review[q.text].is_abusive = 1) =>
                /\ q.spam_calls = 0
                /\ q.spam = NoSpam
                /\ q.pc # "hide"
                /\ q.pc = "save" =>
                      /\ new_row(q).is_abusive = 1
                      /\ new_row(q).is_spam = 0
                      /\ new_row(q).auto_review_action = verdicts.review[q.text].auto_action
                      /\ response_of(q) = "abuse"
                /\ (/\ q.pc = "abuse_check"
                    /\ q.comment_id \in DOMAIN comments
                    /\ comments[q.comment_id].moderated_by = None) =>
                      /\ comments[q.comment_id].text = q.text
                      /\ comments[q.comment_id].is_abusive = 1
                      /\ comments[q.comment_id].is_spam = 0
                      /\ comments[q.comment_id].spam_reasons = <<>>

\* an abusive text that is also promotional is stored by the abuse path as the
\* fifth copy of the same text by the same user on the same post
AbusiveFifthRepeatStored ==
    \E r \in Procs :
        /\ req[r].pc = "abuse_check"
        /\ req[r].text = TAbusivePromo
        /\ verdicts.promo[req[r].text]
        /\ req[r].comment_id \in CopiesOf(req[r])
        /\ Cardinality(CopiesOf(req[r])) >= 5
        /\ comments[req[r].comment_id].is_abusive = 1
        /\ comments[req[r].comment_id].is_spam = 0

\* C2: in every reachable state no stored comment has both is_abusive = 1 and
\* is_spam = 1.
NeverAbusiveAndSpam ==
    \A id \in DOMAIN comments : ~(comments[id].is_abusive = 1 /\ comments[id].is_spam = 1)

\* C9: a submission whose commit fails leaves no earlier comment changed: the
\* bulk hide and the insertion of the new comment take effect together or not at all.
FailedSubmissionChangesNothing ==
    \A r \in Procs : req[r].pc = "failed" => req[r].changed_ids = {}

\* the step that stores the new comment of request r
Stores(r) == req[r].pc = "save" /\ nextId' = nextId + 1 /\ nextId \in DOMAIN comments'

\* C10: in the hide_all case, when the new spam comment is stored, every comment
\* listed in similar_comment_ids that still exists has been set to hidden by the
\* same submission (and is hidden, unless a moderator reviewed it since).
HiddenBeforeSpamStored ==
    [][\A r \in Procs :
          (Stores(r) /\ req[r].spam.is_spam /\ req[r].spam.hide_all) =>
              \A id \in Listed(req[r].spam) \cap DOMAIN comments :
                  /\ id \in req[r].hidden_ids
                  /\ comments[id].is_spam = 1
                  /\ comments[id].status = "hidden" \/ comments[id].moderated_by = Moderator]_vars

\* a promotional spam comment is stored after four earlier comments were hidden
PromotionalSpamStored ==
    \E id \in DOMAIN comments :
        /\ comments[id].auto_review_action = "auto_hide_spam"
        /\ comments[id].spam_confidence = 95
        /\ Cardinality({old \in DOMAIN comments :
                           old < id /\ comments[old].status = "hidden"
                                    /\ comments[old].is_spam = 1}) >= 4

-----------------------------------------------------------------------------
(* Properties of detect_spam and the spam path, checked under SpecSeq, where one
   user submits to one post through request slot 1 *)

\* the request is classified and its comment not yet stored
InFlight == req[1].pc \in {"hide", "save"}

\* no request is being served
Quiet == req[1].pc \in {"idle", "done"}

\* the number of stored comments
Stored == Cardinality(DOMAIN comments)

\* every stored comment has the text t
OnlyText(t) == \A id \in DOMAIN comments : comments[id].text = t

\* the earlier comments whose text is an exact repeat of the text in flight
ExactRepeats ==
    {id \in DOMAIN comments : verdicts.sim[req[1].text][comments[id].text].num
                                  = verdicts.sim[req[1].text][comments[id].text].den}

\* the earlier comments whose text is near-identical to the text in flight, not exact
NearRepeats ==
    {id \in DOMAIN comments \ ExactRepeats :
        100 * verdicts.sim[req[1].text][comments[id].text].num
            >= 85 * verdicts.sim[req[1].text][comments[id].text].den}

\* C3: the same promotional, non-abusive text submitted 5 times in a row by one
\* user to one post: submissions 1 to 3 get action allow, the 4th gets warning (not
\* spam, stored approved), the 5th gets auto_hide with hide_all and
\* similar_comment_ids the ids of the 4 earlier comments; once the 5th is stored
\* all 5 comments are hidden.
PromotionalCascade ==
    OnlyText(TPromo) =>
        /\ (InFlight /\ req[1].text = TPromo /\ Stored <= 2) =>
              /\ req[1].spam.action = "allow"
              /\ ~req[1].spam.is_spam
              /\ new_row(req[1]).status = "approved"
        /\ (InFlight /\ req[1].text = TPromo /\ Stored = 3) =>
              /\ req[1].spam.action = "warning"
              /\ ~req[1].spam.is_spam
              /\ new_row(req[1]).status = "approved"
        /\ (InFlight /\ req[1].text = TPromo /\ Stored = 4) =>
              /\ req[1].spam.action = "auto_hide"
              /\ req[1].spam.is_spam
              /\ req[1].spam.hide_all
              /\ req[1].spam.similar_comment_ids = <<4, 3, 2, 1>>
        /\ (Quiet /\ Stored \in 1..4) =>
              /\ \A id \in DOMAIN comments : comments[id].status = "approved"
              /\ req[1].response = IF Stored = 4 THEN "warning" ELSE "clean"
        /\ (Quiet /\ Stored = 5) =>
              /\ \A id \in DOMAIN comments : comments[id].status = "hidden"
              /\ req[1].response = "spam"

\* the fifth copy of the promotional text is stored and all five are hidden
FiveCopiesHidden ==
    /\ Quiet /\ Stored = 5 /\ OnlyText(TPromo)
    /\ \A id \in 1..5 : comments[id].status = "hidden"

\* C4: the same non-promotional, non-abusive text submitted 7 times in a row by
\* one user to one post: submissions 1 to 5 get action allow, the 6th gets the
\* warning, and the 7th gets auto_hide with is_spam, confidence 100 and no hide_all.
RepetitionCascade ==
    (OnlyText(TPlain) /\ InFlight /\ req[1].text = TPlain) =>
        /\ Stored <= 4 => req[1].spam.action = "allow" /\ ~req[1].spam.is_spam
        /\ Stored = 5 => req[1].spam.action = "warning" /\ ~req[1].spam.is_spam
        /\ Stored = 6 =>
              /\ req[1].spam.action = "auto_hide"
              /\ req[1].spam.is_spam
              /\ req[1].spam.confidence = 100
              /\ ~req[1].spam.hide_all

\* the seventh copy of the plain text is in flight with its verdict
SeventhPlainCopy ==
    /\ OnlyText(TPlain) /\ Stored = 6 /\ InFlight /\ req[1].text = TPlain
    /\ req[1].spam.action = "auto_hide"

WarningAndSpamHidden ==
    (Quiet /\ OnlyText(TPlain) /\ Stored = 7) =>
        /\ comments[6].status = "hidden"
        /\ comments[7].status = "hidden"
        /\ \A id \in 1..5 : comments[id].status = "approved"

\* C7: detect_spam returns the first matching row of its table: promotional and
\* reps >= 4: spam, 95, auto_hide, hide_all, all collected ids; reps >= 6: spam, 100,
\* auto_hide, no hide_all; promotional and reps >= 3: warning, 50; reps >= 5:
\* warning, 50; otherwise allow, 0. Promotional content with reps >= 6 gets 95 and
\* hide_all, not 100.
DecisionTable ==
    InFlight =>
        LET v == req[1].spam
            promo == verdicts.promo[req[1].text]
            reps == v.total_repetitions
        IN  /\ reps >= 0
            /\ (promo /\ reps >= 4) =>
                  /\ v.is_spam /\ v.confidence = 95 /\ v.action = "auto_hide" /\ v.hide_all
                  /\ Listed(v) = ExactRepeats \cup NearRepeats
                  /\ Len(v.similar_comment_ids) = Cardinality(Listed(v))
            /\ (~promo /\ reps >= 6) =>
                  v.is_spam /\ v.confidence = 100 /\ v.action = "auto_hide" /\ ~v.hide_all
            /\ (promo /\ reps = 3) =>
                  ~v.is_spam /\ v.confidence = 50 /\ v.action = "warning"
            /\ (~promo /\ reps = 5) =>
                  ~v.is_spam /\ v.confidence = 50 /\ v.action = "warning"
            /\ (reps < 3 \/ (~promo /\ reps < 5)) =>
                  ~v.is_spam /\ v.confidence = 0 /\ v.action = "allow"

\* promotional content repeated 6 times gets the promotional row
PromotionalSixRepeats ==
    /\ InFlight
    /\ verdicts.promo[req[1].text]
    /\ req[1].spam.total_repetitions >= 6
    /\ req[1].spam.confidence = 95
    /\ req[1].spam.hide_all

\* C8 as stated: with e exact repeats and s near-identical repeats in the history,
\* the repetition count detect_spam compares with its thresholds is e + s, and it
\* equals the number of ids collected in similar_comment_ids.
RepetitionsAreSum ==
    InFlight =>
        /\ req[1].spam.total_repetitions = Cardinality(ExactRepeats) + Cardinality(NearRepeats)
        /\ req[1].spam.hide_all =>
              Len(req[1].spam.similar_comment_ids) = req[1].spam.total_repetitions

\* C8 amended: the repetition count is the larger of e and s, while
\* similar_comment_ids collects all e + s comments.
RepetitionsAreMax ==
    InFlight =>
        LET e == Cardinality(ExactRepeats)
            s == Cardinality(NearRepeats)
        IN  /\ req[1].spam.total_repetitions = IF e >= s THEN e ELSE s
            /\ req[1].spam.hide_all =>
                  /\ Len(req[1].spam.similar_comment_ids) = e + s
                  /\ Listed(req[1].spam) = ExactRepeats \cup NearRepeats

\* a hide_all verdict over a history with exact and near-identical repeats
MixedRepeatsListed ==
    /\ InFlight
    /\ req[1].spam.hide_all
    /\ ExactRepeats # {}
    /\ NearRepeats # {}
    /\ Len(req[1].spam.similar_comment_ids) > req[1].spam.total_repetitions

-----------------------------------------------------------------------------
(* Properties of concurrent submissions, checked under SpecConc *)

\* request r has read the history and computed its verdict, and its comment is
\* not stored yet
Pending(r) == req[r].pc \in {"hide", "save"}

\* C11: two submissions of the same text by the same user to the same post never
\* both compute their repetition count from a history without the other's comment,
\* so that identical submissions reach the thresholds of sequential ones: five
\* copies of the promotional text are all hidden once the fifth is stored.
ConcurrentCountsSeeEachOther ==
    /\ \A r1 \in Procs : \A r2 \in Procs \ {r1} :
          ~(/\ Pending(r1) /\ Pending(r2)
            /\ req[r1].user = req[r2].user
            /\ req[r1].post = req[r2].post
            /\ req[r1].text = req[r2].text)
    /\ ((\A r \in Procs : ~Pending(r)) /\ OnlyText(TPromo) /\ Stored = 5) =>
          \A id \in DOMAIN comments : comments[id].status = "hidden"

-----------------------------------------------------------------------------
(* Properties of the validation, checked under SpecValid *)

\* the text is empty or holds only whitespace
BlankText(t) == \A i \in 1..Len(t) : SubSeq(t, i, i) \in {" ", "\t", "\n"}

\* C12: a submission whose text is empty or whitespace-only, or longer than 1000
\* characters, is rejected with an error before is_abusive_with_auto_review or
\* detect_spam is called, and stores and changes nothing; any other text, one of
\* exactly 1000 characters included, is classified.
ValidationRejectsFirst ==
    [][\A r \in Procs :
          (Free(r) /\ req'[r] # req[r]) =>
              LET q == req'[r]
              IN  /\ BlankText(q.text) =>
                        q.pc = "done" /\ q.response = "400_empty"
                  /\ (~BlankText(q.text) /\ Len(q.text) > 1000) =>
                        q.pc = "done" /\ q.response = "400_long"
                  /\ (BlankText(q.text) \/ Len(q.text) > 1000) =>
                        /\ q.review = NoReview
                        /\ q.spam = NoSpam
                        /\ q.spam_calls = 0
                        /\ comments' = comments
                        /\ users' = users
                        /\ nextId' = nextId
                  /\ (~BlankText(q.text) /\ Len(q.text) <= 1000) =>
                        /\ q.pc \in {"hide", "save"}
                        /\ q.response = None
                        /\ q.review = verdicts.review[q.text]]_vars

\* a text of 1000 characters is stored and one of 1001 characters is rejected
LongestTextStored ==
    /\ req[1].pc = "done"
    /\ req[1].response = "400_long"
    /\ Len(req[1].text) = 1001
    /\ \E id \in DOMAIN comments : Len(comments[id].text) = 1000

-----------------------------------------------------------------------------
(* Properties of the abuse path, checked under SpecAbuse and Spec *)

\* C13: the comment of a submission whose abuse verdict has is_abusive = 1 is
\* stored hidden when the verdict's action is keep_hidden and pending_review when
\* it is human_review_needed, with the action, the reason, the flagged words and
\* the confidence (in hundredths) of the verdict.
AbusePathStoresVerdict ==
    [][\A r \in Procs :
          (Stores(r) /\ verdicts.review[req[r].text].is_abusive = 1) =>
              LET v == verdicts.review[req[r].text]
                  row == comments'[nextId]
              IN  /\ v.auto_action = "keep_hidden" => row.status = "hidden"
                  /\ v.auto_action = "human_review_needed" => row.status = "pending_review"
                  /\ v.auto_action \in {"keep_hidden", "human_review_needed"}
                  /\ row.text = req[r].text
                  /\ row.is_abusive = 1
                  /\ row.auto_review_action = v.auto_action
                  /\ row.auto_review_reason = [text |-> v.reason, times |-> 0]
                  /\ row.flagged_words = v.flagged_words
                  /\ row.confidence_score = v.confidence]_vars

\* a comment kept hidden and a comment waiting for review are both stored
HiddenAndPendingStored ==
    /\ \E id \in DOMAIN comments :
          /\ comments[id].auto_review_action = "keep_hidden"
          /\ comments[id].status = "hidden"
          /\ comments[id].flagged_words # {}
    /\ \E id \in DOMAIN comments :
          /\ comments[id].auto_review_action = "human_review_needed"
          /\ comments[id].status = "pending_review"
          /\ comments[id].auto_review_reason.text = "uncertain_context"

\* C14: when the warning or suspension e-mail cannot be sent, the failure is
\* swallowed: no comment changes, the update of warning_count or is_suspended
\* stays, and the submission returns its normal result.
MailFailureSwallowed ==
    [][\A r \in Procs :
          (req[r].pc = "abuse_check" /\ req'[r].pc = "done" /\ req'[r].mail = "failed") =>
              LET u == req[r].user
              IN  /\ comments' = comments
                  /\ req'[r].response = "abuse"
                  /\ \/ /\ users'[u].warning_count = users[u].warning_count + 1
                        /\ users'[u].is_suspended = users[u].is_suspended
                     \/ /\ ~users[u].is_suspended
                        /\ users'[u].is_suspended
                        /\ users'[u].warning_count = users[u].warning_count]_vars

\* the user is suspended although the suspension e-mail was not sent, and the
\* abusive comment of the request is stored
SuspendedWithoutMail ==
    /\ req[1].pc = "done"
    /\ req[1].mail = "failed"
    /\ req[1].response = "abuse"
    /\ users[1].is_suspended
    /\ nextId - 1 \in DOMAIN comments
    /\ comments[nextId - 1].is_abusive = 1

-----------------------------------------------------------------------------
(* Properties of is_abusive_with_auto_review, checked under SpecAbuse on the
   verdicts of the classified requests *)

\* the verdict, the flagged words and the context scores of the text of request r
VerdictOf(r) == req[r].review
FlaggedOfText(r) == verdicts.matches[req[r].text]
ContextOf(r) == verdicts.context[req[r].text]

\* C15: for a text that is not blank, with M the flagged words after the
\* phrase_abuse injection, the verdict is the first matching row of: M empty ->
\* (0, 0, approve, no_abusive_words); clearly_abusive > 0 or highly_abusive > 0 or
\* |M| >= 3 -> (1, 0.95, keep_hidden, clearly_abusive_pattern_or_highly_abusive_words);
\* likely_false_positive -> (0, 0.3, auto_approve, positive_context_detected);
\* |M| = 1 and politeness_score > 0 -> (0, 0.4, auto_approve, polite_tone_detected);
\* |M| = 1 and the word highly abusive -> (1, 0.8, keep_hidden, high_risk_word_detected);
\* otherwise (1, 0.6, human_review_needed, uncertain_context). A text with a
\* positive-context pattern and a clearly-abusive pattern yields keep_hidden, and
\* the confidence is one of the fixed constants.
AbuseDecisionTable ==
    \A r \in Procs :
        Classified(req[r]) =>
            LET v == VerdictOf(r)
                M == FlaggedOfText(r)
                c == ContextOf(r)
                definite == c.clearly_abusive > 0 \/ c.highly_abusive > 0 \/ Cardinality(M) >= 3
                positive == c.likely_false_positive
                polite == Cardinality(M) = 1 /\ c.politeness_score > 0
                risky == Cardinality(M) = 1 /\ M \subseteq {"asshole", "bitch", "moron", "idiot"}
                Is(abusive, conf, action, reason) ==
                    /\ v.is_abusive = abusive
                    /\ v.confidence = conf
                    /\ v.auto_action = action
                    /\ v.reason = reason
                    /\ v.flagged_words = M
            IN  /\ M = {} => Is(0, 0, "approve", "no_abusive_words")
                /\ (M # {} /\ definite) =>
                      Is(1, 95, "keep_hidden", "clearly_abusive_pattern_or_highly_abusive_words")
                /\ (M # {} /\ ~definite /\ positive) =>
                      Is(0, 30, "auto_approve", "positive_context_detected")
                /\ (M # {} /\ ~definite /\ ~positive /\ polite) =>
                      Is(0, 40, "auto_approve", "polite_tone_detected")
                /\ (M # {} /\ ~definite /\ ~positive /\ ~polite /\ risky) =>
                      Is(1, 80, "keep_hidden", "high_risk_word_detected")
                /\ (M # {} /\ ~definite /\ ~positive /\ ~polite /\ ~risky) =>
                      Is(1, 60, "human_review_needed", "uncertain_context")
                /\ v.confidence \in {0, 95, 30, 40, 80, 60}
                /\ (c.positive_context > 0 /\ c.clearly_abusive > 0) =>
                      v.auto_action = "keep_hidden"

\* a text with a positive-context pattern and a clearly-abusive pattern is
\* stored hidden
PositiveAndAbusiveHidden ==
    \E id \in DOMAIN comments :
        /\ verdicts.context[comments[id].text].positive_context > 0
        /\ verdicts.context[comments[id].text].clearly_abusive > 0
        /\ comments[id].auto_review_action = "keep_hidden"
        /\ comments[id].status = "hidden"

\* the text of request r is, once lowered and stripped, one highly abusive
\* word and nothing else
LoneHighRiskWord(r) ==
    /\ Strip(Lower(req[r].text)) \in {"asshole", "bitch", "moron", "idiot"}
    /\ ContextOf(r).clearly_abusive = 0

\* C16 as stated: a text that is exactly one highly abusive word, such as
\* "idiot", with no clearly-abusive phrase, gets keep_hidden with the reason
\* high_risk_word_detected
LoneHighRiskWordReason ==
    \A r \in Procs :
        (Classified(req[r]) /\ LoneHighRiskWord(r)) =>
            /\ VerdictOf(r).auto_action = "keep_hidden"
            /\ VerdictOf(r).reason = "high_risk_word_detected"

\* C16 amended: such a text gets keep_hidden, with the reason
\* clearly_abusive_pattern_or_highly_abusive_words and confidence 0.95, the lone
\* word being matched at the start and at the end of the text by the
\* direct-attack patterns
LoneHighRiskWordHidden ==
    \A r \in Procs :
        (Classified(req[r]) /\ LoneHighRiskWord(r)) =>
            /\ ContextOf(r).highly_abusive > 0
            /\ VerdictOf(r).is_abusive = 1
            /\ VerdictOf(r).auto_action = "keep_hidden"
            /\ VerdictOf(r).reason = "clearly_abusive_pattern_or_highly_abusive_words"
            /\ VerdictOf(r).confidence = 95

\* "idiot" is stored hidden with its verdict
IdiotStored ==
    \E id \in DOMAIN comments :
        /\ comments[id].text = TIdiot
        /\ comments[id].status = "hidden"
        /\ comments[id].auto_review_action = "keep_hidden"
        /\ comments[id].auto_review_reason.text = "clearly_abusive_pattern_or_highly_abusive_words"

\* the text of request r matches a positive-context pattern and neither a
\* clearly-abusive nor a direct-attack pattern
PositiveOnly(r) ==
    /\ ContextOf(r).positive_context > 0
    /\ ContextOf(r).clearly_abusive = 0
    /\ ContextOf(r).highly_abusive = 0

SarcasticQuestion(r) ==
    /\ EndsWith(Strip(req[r].text), "?")
    /\ CountMatches(sarcastic_indicators, Strip(Lower(req[r].text))) > 0

\* the text of request r contains "please" or a word of thanks
SaysPleaseOrThanks(r) ==
    \E w \in {"please", "thanks", "thank you", "thx"} : Contains(Strip(Lower(req[r].text)), w)

\* C18: a text ending with "?" that matches a sarcastic indicator gets no
\* politeness point for being a question, so with one flagged word and no
\* "please" or thanks it is not auto-approved as polite_tone_detected;
\* "Are you stupid?" gets keep_hidden
SarcasticQuestionNotPolite ==
    \A r \in Procs :
        (Classified(req[r]) /\ SarcasticQuestion(r)) =>
            /\ ContextOf(r).politeness_score <= 2
            /\ ~SaysPleaseOrThanks(r) =>
                  /\ ContextOf(r).politeness_score = 0
                  /\ Cardinality(FlaggedOfText(r)) = 1 =>
                        VerdictOf(r).reason # "polite_tone_detected"
            /\ req[r].text = TSarcastic => VerdictOf(r).auto_action = "keep_hidden"

\* "how stupid is this?" has been classified: a sarcastic question with one
\* flagged word and no clearly-abusive pattern, left to human review
SarcasticQuestionClassified ==
    /\ Classified(req[1])
    /\ req[1].text = THowStupid
    /\ SarcasticQuestion(1)
    /\ Cardinality(FlaggedOfText(1)) = 1
    /\ ContextOf(1).clearly_abusive = 0
    /\ VerdictOf(1).auto_action = "human_review_needed"

-----------------------------------------------------------------------------
(* Properties of the warning path, checked under SpecSeq *)

-----------------------------------------------------------------------------
(* Properties of the lexicon and of the flagged words, checked under SpecLex *)

\* the words of the lexicon found in the text of request r, after the filter of
\* "hell" and before the sentinel is added
FoundOf(r) == verdicts.found[req[r].text]

\* C21: "phrase_abuse" is in flagged_words exactly when no word of the lexicon
\* is left as a match and clearly_abusive > 0 or highly_abusive > 0; a verdict
\* with the sentinel has is_abusive = 1, the action keep_hidden and confidence
\* 0.95, and is never approve.
PhraseAbuseSentinel ==
    \A r \in Procs :
        Classified(req[r]) =>
            LET v == VerdictOf(r)
                c == ContextOf(r)
            IN  /\ "phrase_abuse" \in v.flagged_words <=>
                      (FoundOf(r) = {} /\ (c.clearly_abusive > 0 \/ c.highly_abusive > 0))
                /\ "phrase_abuse" \in v.flagged_words =>
                      /\ v.flagged_words = {"phrase_abuse"}
                      /\ v.is_abusive = 1
                      /\ v.auto_action = "keep_hidden"
                      /\ v.confidence = 95

\* "You idiot" is stored hidden with the sentinel, under a lexicon without
\* "idiot": no clearly abusive phrase, a direct attack only
SentinelStored ==
    \E id \in DOMAIN comments :
        /\ comments[id].text = TYouIdiot
        /\ verdicts.lexicon = <<"stupid", "hell", "damn">>
        /\ verdicts.context[TYouIdiot].clearly_abusive = 0
        /\ comments[id].flagged_words = {"phrase_abuse"}
        /\ comments[id].status = "hidden"
        /\ comments[id].is_abusive = 1

\* the text of request r tells somebody to go to hell, or to burn or rot in it
HellPhrase(r) ==
    LET text_lower == Strip(Lower(req[r].text))
    IN  \/ Search(Cat(<<WB, Lit("go"), Star(WS), Lit("to"), Star(WS), Lit("hell"), WB>>),
                  text_lower)
        \/ Search(Cat(<<WB, Lit("burn"), Star(WS), Lit("in"), Star(WS), Lit("hell"), WB>>),
                  text_lower)
        \/ Search(Cat(<<WB, Lit("rot"), Star(WS), Lit("in"), Star(WS), Lit("hell"), WB>>),
                  text_lower)

\* "hell" is the only word of the lexicon found in the text of request r, which
\* holds no such phrase
OnlyHellOutsidePhrase(r) == verdicts.hits[req[r].text] = {"hell"} /\ ~HellPhrase(r)

\* C23 as stated: "hell" is in flagged_words only when the text holds a "go to
\* hell", "burn in hell" or "rot in hell" phrase, and a text whose only lexicon
\* hit is "hell" outside such a phrase gets approve with no flagged word
HellOutsidePhraseApproved ==
    \A r \in Procs :
        Classified(req[r]) =>
            /\ "hell" \in VerdictOf(r).flagged_words => HellPhrase(r)
            /\ OnlyHellOutsidePhrase(r) =>
                  /\ VerdictOf(r).auto_action = "approve"
                  /\ VerdictOf(r).flagged_words = {}

\* C23 amended: "hell" is in flagged_words only when the text holds such a
\* phrase; a text whose only lexicon hit is "hell" outside such a phrase is left
\* with no lexicon match, and gets approve with no flagged word when it matches
\* no clearly-abusive and no direct-attack pattern, and keep_hidden with the
\* sentinel "phrase_abuse" when it matches one
HellOutsidePhraseDropped ==
    \A r \in Procs :
        Classified(req[r]) =>
            /\ "hell" \in VerdictOf(r).flagged_words => HellPhrase(r)
            /\ OnlyHellOutsidePhrase(r) =>
                  /\ FoundOf(r) = {}
                  /\ (ContextOf(r).clearly_abusive = 0 /\ ContextOf(r).highly_abusive = 0) =>
                        /\ VerdictOf(r).is_abusive = 0
                        /\ VerdictOf(r).auto_action = "approve"
                        /\ VerdictOf(r).flagged_words = {}
                  /\ (ContextOf(r).clearly_abusive > 0 \/ ContextOf(r).highly_abusive > 0) =>
                        /\ VerdictOf(r).is_abusive = 1
                        /\ VerdictOf(r).auto_action = "keep_hidden"
                        /\ VerdictOf(r).flagged_words = {"phrase_abuse"}

\* "What the hell is this about?" is stored as a clean comment under a lexicon
\* that lists "hell", after "Go to hell" was stored with the word flagged
HarmlessHellStored ==
    /\ "hell" \in WordsOf(verdicts.lexicon)
    /\ verdicts.hits[TWhatTheHell] = {"hell"}
    /\ \E id \in DOMAIN comments :
          /\ comments[id].text = TWhatTheHell
          /\ comments[id].status = "approved"
          /\ comments[id].flagged_words = {}
    /\ \E id \in DOMAIN comments :
          /\ comments[id].text = TGoToHell
          /\ comments[id].flagged_words = {"hell"}

\* C24: when abusive_words.txt is missing as the module is loaded, loading does
\* not fail: the lexicon is the built-in list, requests are classified with it,
\* and no operation changes the lexicon.
LexiconFallsBack ==
    [][/\ verdicts'.lexicon = verdicts.lexicon
       /\ ~verdicts.file.exists =>
             /\ verdicts.lexicon = <<"stupid", "idiot", "fuck", "hate", "dumb", "shit",
                                     "damn", "asshole", "bitch", "moron">>
             /\ \A r \in Procs :
                   (Classified(req'[r]) /\ req'[r].text = TYouIdiot) =>
                       req'[r].review.flagged_words = {"idiot"}]_vars

\* with the file missing, "You idiot" is stored with the built-in word "idiot"
\* flagged
BuiltInWordFlagged ==
    /\ ~verdicts.file.exists
    /\ \E id \in DOMAIN comments :
          /\ comments[id].text = TYouIdiot
          /\ comments[id].flagged_words = {"idiot"}
          /\ comments[id].status = "hidden"

-----------------------------------------------------------------------------
(* Properties of detect_spam and of the bulk hide with several users and posts,
   checked under SpecIso *)

\* the stored comments of a user on a post, and the table without the others
OwnIds(u, p) == {id \in DOMAIN comments : comments[id].user_id = u /\ comments[id].post_id = p}
WithoutOthers(u, p) == [id \in OwnIds(u, p) |-> comments[id]]

\* the table with the comments of the others hidden
OthersHidden(u, p) ==
    [id \in DOMAIN comments |->
        IF id \in OwnIds(u, p) THEN comments[id] ELSE [comments[id] EXCEPT !.status = "hidden"]]

\* C22: the verdict of detect_spam for (text, user, post) depends only on the
\* text and on the stored comments of that user on that post: it is the verdict
\* computed without the comments of other users and of other posts, and with
\* those comments hidden, and it is the verdict the request of that user works
\* with.
SpamVerdictOwnHistoryOnly ==
    /\ \A s \in IsoSubmissions :
          LET here == detect_spam(s[3], s[1], s[2], comments, verdicts)
          IN  /\ here = detect_spam(s[3], s[1], s[2], WithoutOthers(s[1], s[2]), verdicts)
              /\ here = detect_spam(s[3], s[1], s[2], OthersHidden(s[1], s[2]), verdicts)
              /\ Listed(here) \subseteq OwnIds(s[1], s[2])
    /\ \A r \in Procs :
          Pending(r) =>
              LET q == req[r]
                  alone == detect_spam(q.text, q.user, q.post, WithoutOthers(q.user, q.post),
                                       verdicts)
              IN  /\ q.spam.total_repetitions = alone.total_repetitions
                  /\ q.spam.similar_comment_ids = alone.similar_comment_ids
                  /\ q.spam.action = alone.action

\* user 1 submits the promotional text to post 1 for the second time, while
\* user 2 has it on post 1 and user 1 has it on post 2: one repetition is counted
OthersNotCounted ==
    /\ Pending(1)
    /\ req[1].user = 1 /\ req[1].post = 1 /\ req[1].text = TPromo
    /\ \E id \in DOMAIN comments : comments[id].user_id = 2 /\ comments[id].text = TPromo
    /\ \E id \in DOMAIN comments : comments[id].post_id = 2 /\ comments[id].text = TPromo
    /\ req[1].spam.total_repetitions = 1
    /\ Cardinality({id \in DOMAIN comments : comments[id].text = TPromo}) >= 3

\* C27: a hide_all spam submission changes, apart from inserting its comment,
\* only comments of the same user on the same post whose text is at least 0.85
\* similar to the submitted text, which it sets to hidden and is_spam 1; every
\* other stored comment keeps all its fields.
BulkHideFrame ==
    [][\A r \in Procs :
          (Pending(r) /\ req[r].spam.hide_all /\ req'[r] # req[r]) =>
              /\ \A id \in DOMAIN comments :
                    /\ id \in DOMAIN comments'
                    /\ comments'[id] # comments[id] =>
                          /\ comments[id].user_id = req[r].user
                          /\ comments[id].post_id = req[r].post
                          /\ LET ratio == verdicts.sim[req[r].text][comments[id].text]
                             IN  100 * ratio.num >= 85 * ratio.den
                          /\ comments'[id] = [comments[id] EXCEPT !.status = "hidden",
                                                                  !.is_spam = 1]
              /\ DOMAIN comments' \subseteq DOMAIN comments \cup {nextId}]_vars

\* the bulk hide has hidden the exact and the near-identical copies of user 1
\* on post 1, and a comment of another user, of another post or with another
\* text is still approved
OthersLeftVisible ==
    /\ req[1].pc = "save"
    /\ req[1].spam.hide_all
    /\ Cardinality(req[1].hidden_ids) >= 4
    /\ \A id \in req[1].hidden_ids : comments[id].status = "hidden" /\ comments[id].is_spam = 1
    /\ \E id \in DOMAIN comments \ req[1].hidden_ids :
          /\ comments[id].status = "approved"
          /\ comments[id].is_spam = 0

-----------------------------------------------------------------------------
(* Properties of the stored flags under moderation, checked under SpecMod *)

\* C25: a stored comment with is_abusive = 1 has the status hidden or
\* pending_review, never approved; the abuse verdict has is_abusive = 1 exactly
\* with the action keep_hidden or human_review_needed and is_abusive = 0 exactly
\* with approve or auto_approve.
AbusiveNeverApproved ==
    /\ \A id \in DOMAIN comments :
          comments[id].is_abusive = 1 => comments[id].status \in {"hidden", "pending_review"}
    /\ \A t \in DOMAIN verdicts.review :
          LET review == verdicts.review[t]
          IN  /\ review.is_abusive \in {0, 1}
              /\ review.is_abusive = 1 <=>
                    review.auto_action \in {"keep_hidden", "human_review_needed"}
              /\ review.is_abusive = 0 <=>
                    review.auto_action \in {"approve", "auto_approve"}
    /\ \A r \in Procs :
          Classified(req[r]) => req[r].review = verdicts.review[req[r].text]

\* an abusive comment that waited for review was hidden by the bulk hide and is
\* still abusive, and the moderator approved another one, which is not
AbusiveHiddenAndApproved ==
    /\ \E id \in DOMAIN comments :
          /\ comments[id].auto_review_action = "human_review_needed"
          /\ comments[id].is_spam = 1
          /\ comments[id].is_abusive = 1
          /\ comments[id].status = "hidden"
    /\ \E id \in DOMAIN comments :
          /\ comments[id].auto_review_action = "human_review_needed"
          /\ comments[id].moderated_by = Moderator
          /\ comments[id].is_abusive = 0
          /\ comments[id].status = "approved"

-----------------------------------------------------------------------------
(* Properties of repeated submissions under moderation, checked under SpecMono *)

\* the comments of the user on the post are all still stored after the step
NoneDeleted(u, p) ==
    \A id \in DOMAIN comments :
        (comments[id].user_id = u /\ comments[id].post_id = p) => id \in DOMAIN comments'

\* C26: once a non-abusive text of a user on a post is classified as spam, it is
\* classified as spam after every step that deletes no comment of that user on
\* that post, whatever the status of the comments; and a request is classified
\* by detect_spam on the comments stored when it arrives.
SpamMonotone ==
    [][/\ \A u \in Users, p \in Posts, t \in ModTexts :
             (/\ verdicts.review[t].is_abusive = 0
              /\ detect_spam(t, u, p, comments, verdicts).is_spam
              /\ NoneDeleted(u, p))
             => detect_spam(t, u, p, comments', verdicts').is_spam
       /\ \A r \in Procs :
             (/\ Free(r)
              /\ Classified(req'[r])
              /\ req'[r].review.is_abusive = 0)
             => req'[r].spam = detect_spam(req'[r].text, req'[r].user, req'[r].post,
                                           comments, verdicts)]_vars

\* a text was stored as spam after abusive comments waiting for review had been
\* counted and hidden, and the next submission of it is classified as spam
SpamAgainAfterHidden ==
    /\ \E id \in DOMAIN comments :
          /\ comments[id].text = TDumpPromo
          /\ comments[id].is_spam = 1
          /\ comments[id].auto_review_action = "auto_hide_spam"
    /\ \E id \in DOMAIN comments :
          /\ comments[id].text = TDumbPromo
          /\ comments[id].auto_review_action = "human_review_needed"
          /\ comments[id].status = "hidden"
    /\ req[1].text = TDumpPromo
    /\ req[1].pc \in {"hide", "save"}
    /\ req[1].spam.is_spam

-----------------------------------------------------------------------------
(* Properties of the abuse-rate check and of suspension, checked under SpecRate *)

\* the stored comments of a user, and the abusive ones among them
StoredBy(u) == {id \in DOMAIN comments : comments[id].user_id = u}
AbusiveBy(u) == {id \in StoredBy(u) : comments[id].is_abusive = 1}

\* C28: a user becomes suspended only with at least 5 stored comments of which at
\* least 70% are abusive; warning_count changes only by one, with a warning
\* e-mail, with at least 5 comments, a rate in [50%, 70%) and fewer than 2
\* warnings, so it never exceeds 2; a user with fewer than 5 comments is never
\* changed, and a user changes only in the abuse-rate check of an own request.
AbuseRateLimits ==
    [][\A u \in Users :
          LET total == Cardinality(StoredBy(u))
              flagged == Cardinality(AbusiveBy(u))
          IN  /\ (users'[u].is_suspended /\ ~users[u].is_suspended) =>
                    /\ total >= 5
                    /\ 100 * flagged >= 70 * total
              /\ users'[u].warning_count # users[u].warning_count =>
                    /\ users'[u].warning_count = users[u].warning_count + 1
                    /\ total >= 5
                    /\ 100 * flagged >= 50 * total
                    /\ 100 * flagged < 70 * total
                    /\ users[u].warning_count < 2
                    /\ \E r \in Procs : req'[r].mail \in {"sent", "failed"}
              /\ users'[u].warning_count <= 2
              /\ total < 5 => users'[u] = users[u]
              /\ users'[u] # users[u] =>
                    \E r \in Procs : req[r].pc = "abuse_check" /\ req[r].user = u]_vars

\* user 1 has two warnings and eight comments of which five are abusive, and
\* the check of the eighth has left the user as it was
WarnedTwiceThenSpared ==
    /\ users[1].warning_count = 2
    /\ ~users[1].is_suspended
    /\ Cardinality(StoredBy(1)) = 8
    /\ Cardinality(AbusiveBy(1)) = 5
    /\ req[1].pc = "done"
    /\ req[1].response = "abuse"
    /\ req[1].mail = None

\* C29: no step stores a comment of a user who is suspended.
SuspendedUserStoresNothing ==
    [][\A id \in DOMAIN comments' \ DOMAIN comments :
          ~users[comments'[id].user_id].is_suspended]_vars

====
